---- MODULE Spec2Model ----
(***************************************************************************)
(* A model of the dhakahome-web API client (package api): the query        *)
(* parameter normalizer, the mock search engine, the read/write endpoints  *)
(* with their fallback policy, and the OAuth token cache.                  *)
(*                                                                         *)
(* Go strings are modelled as sequences of one-character strings, so that  *)
(* trimming, case folding, digit filtering and number parsing are computed *)
(* as the code computes them.  url.Values is a function from key names to  *)
(* the first value of the key; a key outside the domain reads as "".       *)
(***************************************************************************)
EXTENDS Integers, Sequences, FiniteSets, TLC

(***************************************************************************)
(* Strings                                                                 *)
(***************************************************************************)

DigitChars == {"0", "1", "2", "3", "4", "5", "6", "7", "8", "9"}

\* Value(S) is the element of a one-element set S.  Value({e : x \in {v}}) is
\* e with x standing for v, where v is computed once however often e
\* mentions x.
Value(S) == CHOOSE r \in S : TRUE

DigitVal(ch) ==
    CASE ch = "0" -> 0 [] ch = "1" -> 1 [] ch = "2" -> 2 [] ch = "3" -> 3
      [] ch = "4" -> 4 [] ch = "5" -> 5 [] ch = "6" -> 6 [] ch = "7" -> 7
      [] ch = "8" -> 8 [] ch = "9" -> 9

DigitChar(d) ==
    CASE d = 0 -> "0" [] d = 1 -> "1" [] d = 2 -> "2" [] d = 3 -> "3"
      [] d = 4 -> "4" [] d = 5 -> "5" [] d = 6 -> "6" [] d = 7 -> "7"
      [] d = 8 -> "8" [] d = 9 -> "9"

\* unicode.IsSpace on the characters the model uses
IsSpaceCh(ch) == ch \in {" ", "\t"}

\* unicode.ToLower
ToLowerCh(ch) ==
    CASE ch = "A" -> "a" [] ch = "B" -> "b" [] ch = "C" -> "c" [] ch = "D" -> "d"
      [] ch = "E" -> "e" [] ch = "F" -> "f" [] ch = "G" -> "g" [] ch = "H" -> "h"
      [] ch = "I" -> "i" [] ch = "J" -> "j" [] ch = "K" -> "k" [] ch = "L" -> "l"
      [] ch = "M" -> "m" [] ch = "N" -> "n" [] ch = "O" -> "o" [] ch = "P" -> "p"
      [] ch = "Q" -> "q" [] ch = "R" -> "r" [] ch = "S" -> "s" [] ch = "T" -> "t"
      [] ch = "U" -> "u" [] ch = "V" -> "v" [] ch = "W" -> "w" [] ch = "X" -> "x"
      [] ch = "Y" -> "y" [] ch = "Z" -> "z" [] OTHER -> ch

\* unicode.ToUpper
ToUpperCh(ch) ==
    CASE ch = "a" -> "A" [] ch = "b" -> "B" [] ch = "c" -> "C" [] ch = "d" -> "D"
      [] ch = "e" -> "E" [] ch = "f" -> "F" [] ch = "g" -> "G" [] ch = "h" -> "H"
      [] ch = "i" -> "I" [] ch = "j" -> "J" [] ch = "k" -> "K" [] ch = "l" -> "L"
      [] ch = "m" -> "M" [] ch = "n" -> "N" [] ch = "o" -> "O" [] ch = "p" -> "P"
      [] ch = "q" -> "Q" [] ch = "r" -> "R" [] ch = "s" -> "S" [] ch = "t" -> "T"
      [] ch = "u" -> "U" [] ch = "v" -> "V" [] ch = "w" -> "W" [] ch = "x" -> "X"
      [] ch = "y" -> "Y" [] ch = "z" -> "Z" [] OTHER -> ch

ToLower(sArg) ==
    Value({
        [i \in 1..Len(s) |-> ToLowerCh(s[i])]
        : s \in {sArg}})

SetMin(S) == CHOOSE x \in S : \A y \in S : x <= y
SetMax(S) == CHOOSE x \in S : \A y \in S : x >= y

\* strings.TrimSpace
TrimSpace(sArg) ==
    Value({
        LET keep == {i \in 1..Len(s) : ~IsSpaceCh(s[i])}
        IN  IF keep = {} THEN <<>> ELSE SubSeq(s, SetMin(keep), SetMax(keep))
        : s \in {sArg}})

\* strings.EqualFold
EqualFold(a, b) == ToLower(a) = ToLower(b)

\* strings.Contains
StrContains(sArg, subArg) ==
    Value({
        \E i \in 1..(Len(s) - Len(sub) + 1) : SubSeq(s, i, i + Len(sub) - 1) = sub
        : s \in {sArg}, sub \in {subArg}})

\* strings.ReplaceAll(s, old, new) for one-character old and new
ReplaceCh(sArg, oldArg, newArg) ==
    Value({
        [i \in 1..Len(s) |-> IF s[i] = old THEN new ELSE s[i]]
        : s \in {sArg}, old \in {oldArg}, new \in {newArg}})

\* strings.Split(s, sep) for a one-character separator
RECURSIVE SplitAcc(_, _, _, _)
SplitAcc(sArg, sep, i, curArg) ==
    Value({
        IF i > Len(s) THEN <<cur>>
        ELSE IF s[i] = sep THEN <<cur>> \o SplitAcc(s, sep, i + 1, <<>>)
        ELSE SplitAcc(s, sep, i + 1, Append(cur, s[i]))
        : s \in {sArg}, cur \in {curArg}})

Split(s, sep) == SplitAcc(s, sep, 1, <<>>)

\* strings.Fields: the maximal runs of non-space characters
Fields(s) == SelectSeq(Split(ReplaceCh(s, "\t", " "), " "), LAMBDA w : w # <<>>)

\* strings.Join(words, " ")
RECURSIVE JoinSpace(_)
JoinSpace(wordsArg) ==
    Value({
        IF words = <<>> THEN <<>>
        ELSE IF Len(words) = 1 THEN words[1]
        ELSE words[1] \o <<" ">> \o JoinSpace(Tail(words))
        : words \in {wordsArg}})

RECURSIVE DigitsValue(_)
DigitsValue(dsArg) ==
    Value({
        IF ds = <<>> THEN 0
        ELSE 10 * DigitsValue(SubSeq(ds, 1, Len(ds) - 1)) + DigitVal(ds[Len(ds)])
        : ds \in {dsArg}})

AllDigits(sArg) ==
    Value({
        \A i \in 1..Len(s) : s[i] \in DigitChars
        : s \in {sArg}})

\* strconv.Atoi: an optional sign and at least one decimal digit.  The strings
\* of the model are far shorter than the 19 digits at which int64 overflows.
Atoi(sArg) ==
    Value({
        LET signed == Len(s) > 0 /\ s[1] \in {"+", "-"}
            body   == IF signed THEN Tail(s) ELSE s
        IN  IF body = <<>> \/ ~AllDigits(body)
            THEN [ok |-> FALSE, val |-> 0]
            ELSE [ok |-> TRUE,
                  val |-> IF signed /\ s[1] = "-" THEN 0 - DigitsValue(body)
                          ELSE DigitsValue(body)]
        : s \in {sArg}})

RECURSIVE NatDigits(_)
NatDigits(nArg) ==
    Value({
        IF n < 10 THEN <<DigitChar(n)>>
        ELSE Append(NatDigits(n \div 10), DigitChar(n % 10))
        : n \in {nArg}})

\* strconv.Itoa
Itoa(n) == IF n < 0 THEN <<"-">> \o NatDigits(0 - n) ELSE NatDigits(n)

(***************************************************************************)
(* Decimal numbers: the float64 values the code parses and prints.  A      *)
(* value is a sign, an integer part and the fraction digits without        *)
(* trailing zeros; the decimal strings of the model are short enough for   *)
(* float64 to hold them exactly up to strconv's shortest round trip.       *)
(***************************************************************************)

RECURSIVE StripTrailingZeros(_)
StripTrailingZeros(dsArg) ==
    Value({
        IF ds # <<>> /\ ds[Len(ds)] = "0"
        THEN StripTrailingZeros(SubSeq(ds, 1, Len(ds) - 1))
        ELSE ds
        : ds \in {dsArg}})

NoDecimal == [ok |-> FALSE, neg |-> FALSE, int |-> 0, frac |-> <<>>]

\* strconv.ParseFloat(s, 64) on the spellings the model feeds it: an optional
\* sign, digits and at most one decimal point, with at least one digit.
\* (Exponents, hex floats, "inf" and "nan" are not among the model's inputs.)
ParseFloat(sArg) ==
    Value({
        LET signed == Len(s) > 0 /\ s[1] \in {"+", "-"}
            body   == IF signed THEN Tail(s) ELSE s
            dots   == {i \in 1..Len(body) : body[i] = "."}
            dot    == IF dots = {} THEN Len(body) + 1 ELSE SetMin(dots)
            ip     == SubSeq(body, 1, dot - 1)
            fp     == SubSeq(body, dot + 1, Len(body))
        IN  IF \/ \E i \in 1..Len(body) : body[i] \notin (DigitChars \cup {"."})
               \/ Cardinality(dots) > 1
               \/ (ip = <<>> /\ fp = <<>>)
            THEN NoDecimal
            ELSE [ok |-> TRUE, neg |-> signed /\ s[1] = "-",
                  int |-> DigitsValue(ip), frac |-> StripTrailingZeros(fp)]
        : s \in {sArg}})

DecIsZero(v) == v.int = 0 /\ v.frac = <<>>
\* val < 0, val <= 0 and val > 0 on a parsed value (-0 is not < 0)
DecLtZero(v) == v.neg /\ ~DecIsZero(v)
DecLeZero(v) == v.neg \/ DecIsZero(v)
DecGtZero(v) == ~DecLeZero(v)
\* An IntLtDec that also rejects a value equal to the bound
IntLtDecOrEqual(n, v) == n <= v.int

\* float64(n) < v and float64(n) > v for an integer n >= 0 and v > 0
IntLtDec(n, v) == n < v.int \/ (n = v.int /\ v.frac # <<>>)
IntGtDec(n, v) == n > v.int

DecimalOfInt(n) == [ok |-> TRUE, neg |-> FALSE, int |-> n, frac |-> <<>>]

\* strconv.FormatFloat(v, 'f', -1, 64) of a value >= 0
FormatFloat(vArg) ==
    Value({
        NatDigits(v.int) \o (IF v.frac = <<>> THEN <<>> ELSE <<".">> \o v.frac)
        : v \in {vArg}})

(***************************************************************************)
(* url.Values                                                              *)
(***************************************************************************)

EmptyValues == [k \in {} |-> <<>>]

\* url.Values.Get
Get(qArg, kArg) ==
    Value({
        IF k \in DOMAIN q THEN q[k] ELSE <<>>
        : q \in {qArg}, k \in {kArg}})

\* url.Values.Set
SetKey(pArg, kArg, vArg) ==
    Value({
        [x \in (DOMAIN p) \cup {k} |-> IF x = k THEN v ELSE p[x]]
        : p \in {pArg}, k \in {kArg}, v \in {vArg}})

(***************************************************************************)
(* Parameter normalizer                                                    *)
(***************************************************************************)

defaultStatusFilter == <<"l", "i", "s", "t", "e", "d", "_", "r", "e", "n", "t", "a", "l", ",", "l", "i", "s", "t", "e", "d", "_", "s", "a", "l", "e">>

isAnyValue(v) == EqualFold(TrimSpace(v), <<"a", "n", "y">>)

cleanAnyValue(vArg) ==
    Value({
        IF isAnyValue(TrimSpace(v)) THEN <<>> ELSE TrimSpace(v)
        : v \in {vArg}})

RECURSIVE firstNonEmpty(_)
firstNonEmpty(valuesArg) ==
    Value({
        IF values = <<>> THEN <<>>
        ELSE IF TrimSpace(values[1]) # <<>> THEN TrimSpace(values[1])
        ELSE firstNonEmpty(Tail(values))
        : values \in {valuesArg}})

normalizeListingType(v) ==
    LET clean == TrimSpace(ToLower(v))
    IN  IF clean \in {<<>>, <<"b", "o", "t", "h">>} THEN <<>>
        ELSE IF clean \in {<<"r", "e", "n", "t">>, <<"r", "e", "n", "t", "a", "l">>, <<"l", "i", "s", "t", "e", "d", "_", "r", "e", "n", "t", "a", "l">>, <<"l", "e", "a", "s", "e">>,
                           <<"t", "o", "-", "l", "e", "t">>, <<"t", "o", "_", "l", "e", "t">>, <<"t", "o", "l", "e", "t">>}
             THEN <<"l", "i", "s", "t", "e", "d", "_", "r", "e", "n", "t", "a", "l">>
        ELSE IF clean \in {<<"s", "a", "l", "e">>, <<"s", "e", "l", "l">>, <<"l", "i", "s", "t", "e", "d", "_", "s", "a", "l", "e">>, <<"f", "o", "r", "_", "s", "a", "l", "e">>}
             THEN <<"l", "i", "s", "t", "e", "d", "_", "s", "a", "l", "e">>
        ELSE clean

titleizeWord(wordArg) ==
    Value({
        [j \in 1..Len(word) |-> IF j = 1 THEN ToUpperCh(word[j]) ELSE ToLowerCh(word[j])]
        : word \in {wordArg}})

titleize(input) ==
    LET clean == TrimSpace(ReplaceCh(input, "_", " "))
        words == Fields(clean)
    IN  IF clean = <<>> THEN <<>>
        ELSE JoinSpace([i \in 1..Len(words) |-> titleizeWord(words[i])])

normalizeTypeValue(v) ==
    LET clean == TrimSpace(ToLower(v))
    IN  CASE clean = <<>> -> <<>>
          [] clean = <<"a", "n", "y">> -> <<>>
          [] clean = <<"r", "e", "s", "i", "d", "e", "n", "t", "i", "a", "l">> -> <<"R", "e", "s", "i", "d", "e", "n", "t", "i", "a", "l">>
          [] clean = <<"c", "o", "m", "m", "e", "r", "c", "i", "a", "l">> -> <<"C", "o", "m", "m", "e", "r", "c", "i", "a", "l">>
          [] clean = <<"l", "a", "n", "d">> -> <<"P", "l", "o", "t">>
          [] OTHER -> titleize(clean)

\* The result of parsePriceField: ok and the parsed value.  Only ASCII digits
\* and decimal points survive the filter (strconv.Atoi rejects any other
\* unicode digit rune).
parsePriceField(rawArg) ==
    Value({
        LET kept == SelectSeq(raw, LAMBDA r : r \in DigitChars \/ r = ".")
            val  == ParseFloat(kept)
        IN  IF raw = <<>> \/ kept = <<>> \/ ~val.ok \/ DecLeZero(val)
            THEN NoDecimal
            ELSE val
        : raw \in {rawArg}})

\* Lines 677-695: one price bound from its canonical key and its legacy key.
setPriceBound(params, q, key, legacy) ==
    LET price  == cleanAnyValue(Get(q, key))
        parsed == parsePriceField(price)
        old    == parsePriceField(Get(q, legacy))
    IN  IF price # <<>>
        THEN IF parsed.ok THEN SetKey(params, key, FormatFloat(parsed))
             ELSE SetKey(params, key, price)
        ELSE IF old.ok THEN SetKey(params, key, FormatFloat(old))
        ELSE params

passThroughKeys ==
    <<"city", "bedrooms", "bathrooms", "price_min", "parking", "serviced",
      "shared_room", "area_min", "area_max", "furnished", "subunit_type",
      "exclude_leased", "sort_by", "order">>

\* Lines 697-716: the loop copying the cleaned value of each listed key.
RECURSIVE copyPassThrough(_, _, _)
copyPassThrough(paramsArg, qArg, iArg) ==
    Value({
        IF i > Len(passThroughKeys) THEN params
        ELSE LET val == cleanAnyValue(Get(q, passThroughKeys[i]))
             IN  copyPassThrough(
                     IF val # <<>> THEN SetKey(params, passThroughKeys[i], val) ELSE params,
                     q, i + 1)
        : params \in {paramsArg}, q \in {qArg}, i \in {iArg}})

\* if v != "" { params.Set(k, v) }
setNonEmpty(params, k, vArg) ==
    Value({IF v # <<>> THEN SetKey(params, k, v) ELSE params : v \in {vArg}})

\* Lines 629-639: page and limit
setPaging(params, q) ==
    LET page  == TrimSpace(Get(q, "page"))
        limit == TrimSpace(Get(q, "limit"))
    IN  SetKey(SetKey(params, "page",
                      IF ~Atoi(page).ok \/ page = <<>> \/ page = <<"0">>
                      THEN <<"1">> ELSE page),
               "limit", IF ~Atoi(limit).ok \/ limit = <<>> THEN <<"9">> ELSE limit)

\* Lines 640-648: status, from status or the listing type
setStatus(params, q) ==
    LET status == cleanAnyValue(Get(q, "status"))
        listingType == normalizeListingType(cleanAnyValue(
                           firstNonEmpty(<<Get(q, "listing_type"), Get(q, "listingType")>>)))
    IN  SetKey(params, "status",
               IF status # <<>> THEN status
               ELSE IF listingType # <<>> THEN listingType
               ELSE defaultStatusFilter)

\* Lines 650-658: the free-text query
setTextQuery(params, q) ==
    LET rawQ == cleanAnyValue(Get(q, "q"))
        loc  == cleanAnyValue(Get(q, "location"))
        area == cleanAnyValue(Get(q, "area"))
    IN  setNonEmpty(params, "q",
                    IF rawQ # <<>> THEN rawQ
                    ELSE IF loc # <<>> THEN loc
                    ELSE area)

\* Lines 660-662
setLocation(params, q) ==
    setNonEmpty(params, "location", cleanAnyValue(Get(q, "location")))

\* Lines 664-668
setNeighborhood(params, q) ==
    LET neighborhood == cleanAnyValue(Get(q, "neighborhood"))
        area == cleanAnyValue(Get(q, "area"))
    IN  setNonEmpty(params, "neighborhood",
                    IF neighborhood # <<>> THEN neighborhood ELSE area)

\* Lines 670-674
setTypes(params, q) ==
    LET rawTypes == cleanAnyValue(Get(q, "types"))
        t == normalizeTypeValue(cleanAnyValue(Get(q, "type")))
    IN  setNonEmpty(params, "types", IF rawTypes # <<>> THEN rawTypes ELSE t)

buildAssetSearchParams(qArg) ==
    Value({
        copyPassThrough(
            setPriceBound(
                setPriceBound(
                    setTypes(setNeighborhood(setLocation(setTextQuery(setStatus(
                        setPaging(EmptyValues, q), q), q), q), q), q),
                    q, "price_max", "maxPrice"),
                q, "price_min", "minPrice"),
            q, 1)
        : q \in {qArg}})

(***************************************************************************)
(* Mock fallback engine                                                    *)
(***************************************************************************)

\* getAllMockProperties: the fields of each record that the search, the
\* pagination and finalizeProperty read.
getAllMockProperties == <<
    [ID |-> <<"m", "o", "c", "k", "-", "r", "e", "s", "-", "u", "t", "t", "a", "r", "a", "-", "0", "1">>,
     Title |-> <<"L", "u", "x", "u", "r", "y", " ", "A", "p", "a", "r", "t", "m", "e", "n", "t", " ", "i", "n", " ", "U", "t", "t", "a", "r", "a", " ", "S", "e", "c", " ", "7">>,
     Address |-> <<"H", "o", "u", "s", "e", " ", "1", "2", ",", " ", "R", "o", "a", "d", " ", "7", ",", " ", "S", "e", "c", "t", "o", "r", " ", "7", ",", " ", "U", "t", "t", "a", "r", "a", ",", " ", "D", "h", "a", "k", "a">>,
     Price |-> 45000, Currency |-> <<"৳">>, Type |-> <<>>, ListingType |-> <<>>,
     Badges |-> <<<<"T", "o", "-", "l", "e", "t">>, <<"V", "e", "r", "i", "f", "i", "e", "d">>, <<"R", "e", "s", "i", "d", "e", "n", "t", "i", "a", "l">>, <<"F", "u", "l", "l", "y", " ", "F", "u", "r", "n", "i", "s", "h", "e", "d">>>>,
     Bedrooms |-> 3, Bathrooms |-> 3, Area |-> 1800, Parking |-> 2],
    [ID |-> <<"m", "o", "c", "k", "-", "r", "e", "s", "-", "u", "t", "t", "a", "r", "a", "-", "0", "2">>,
     Title |-> <<"M", "o", "d", "e", "r", "n", " ", "F", "a", "m", "i", "l", "y", " ", "H", "o", "m", "e", " ", "U", "t", "t", "a", "r", "a", " ", "S", "e", "c", " ", "1", "0">>,
     Address |-> <<"P", "l", "o", "t", " ", "2", "5", ",", " ", "U", "t", "t", "a", "r", "a", " ", "S", "e", "c", " ", "1", "0", ",", " ", "D", "h", "a", "k", "a">>,
     Price |-> 8500000, Currency |-> <<"৳">>, Type |-> <<>>, ListingType |-> <<>>,
     Badges |-> <<<<"F", "o", "r", " ", "S", "a", "l", "e">>, <<"V", "e", "r", "i", "f", "i", "e", "d">>, <<"R", "e", "s", "i", "d", "e", "n", "t", "i", "a", "l">>>>,
     Bedrooms |-> 4, Bathrooms |-> 4, Area |-> 2200, Parking |-> 2],
    [ID |-> <<"m", "o", "c", "k", "-", "r", "e", "s", "-", "u", "t", "t", "a", "r", "a", "-", "0", "3">>,
     Title |-> <<"C", "o", "z", "y", " ", "S", "t", "u", "d", "i", "o", " ", "A", "p", "a", "r", "t", "m", "e", "n", "t", " ", "U", "t", "t", "a", "r", "a", " ", "S", "o", "u", "t", "h">>,
     Address |-> <<"U", "t", "t", "a", "r", "a", " ", "S", "o", "u", "t", "h", ",", " ", "S", "e", "c", "t", "o", "r", " ", "3", ",", " ", "D", "h", "a", "k", "a">>,
     Price |-> 18000, Currency |-> <<"৳">>, Type |-> <<>>, ListingType |-> <<>>,
     Badges |-> <<<<"T", "o", "-", "l", "e", "t">>, <<"V", "e", "r", "i", "f", "i", "e", "d">>, <<"R", "e", "s", "i", "d", "e", "n", "t", "i", "a", "l">>, <<"S", "e", "m", "i", "-", "F", "u", "r", "n", "i", "s", "h", "e", "d">>>>,
     Bedrooms |-> 1, Bathrooms |-> 1, Area |-> 650, Parking |-> 1],
    [ID |-> <<"m", "o", "c", "k", "-", "r", "e", "s", "-", "u", "t", "t", "a", "r", "a", "-", "0", "4">>,
     Title |-> <<"S", "p", "a", "c", "i", "o", "u", "s", " ", "4", "B", "R", " ", "A", "p", "a", "r", "t", "m", "e", "n", "t", " ", "U", "t", "t", "a", "r", "a", " ", "S", "e", "c", " ", "1", "2">>,
     Address |-> <<"R", "o", "a", "d", " ", "1", "5", ",", " ", "S", "e", "c", "t", "o", "r", " ", "1", "2", ",", " ", "U", "t", "t", "a", "r", "a", ",", " ", "D", "h", "a", "k", "a">>,
     Price |-> 55000, Currency |-> <<"৳">>, Type |-> <<>>, ListingType |-> <<>>,
     Badges |-> <<<<"T", "o", "-", "l", "e", "t">>, <<"V", "e", "r", "i", "f", "i", "e", "d">>, <<"R", "e", "s", "i", "d", "e", "n", "t", "i", "a", "l">>, <<"F", "u", "l", "l", "y", " ", "F", "u", "r", "n", "i", "s", "h", "e", "d">>>>,
     Bedrooms |-> 4, Bathrooms |-> 3, Area |-> 2000, Parking |-> 2],
    [ID |-> <<"m", "o", "c", "k", "-", "c", "o", "m", "-", "u", "t", "t", "a", "r", "a", "-", "0", "1">>,
     Title |-> <<"P", "r", "e", "m", "i", "u", "m", " ", "O", "f", "f", "i", "c", "e", " ", "S", "p", "a", "c", "e", " ", "U", "t", "t", "a", "r", "a", " ", "S", "e", "c", " ", "1", "1">>,
     Address |-> <<"B", "u", "i", "l", "d", "i", "n", "g", ":", " ", "C", "r", "y", "s", "t", "a", "l", " ", "T", "o", "w", "e", "r", ",", " ", "S", "e", "c", "t", "o", "r", " ", "1", "1", ",", " ", "U", "t", "t", "a", "r", "a", ",", " ", "D", "h", "a", "k", "a">>,
     Price |-> 120000, Currency |-> <<"৳">>, Type |-> <<>>, ListingType |-> <<>>,
     Badges |-> <<<<"T", "o", "-", "l", "e", "t">>, <<"V", "e", "r", "i", "f", "i", "e", "d">>, <<"C", "o", "m", "m", "e", "r", "c", "i", "a", "l">>, <<"O", "f", "f", "i", "c", "e", " ", "S", "p", "a", "c", "e">>>>,
     Bedrooms |-> 0, Bathrooms |-> 2, Area |-> 2500, Parking |-> 3],
    [ID |-> <<"m", "o", "c", "k", "-", "c", "o", "m", "-", "u", "t", "t", "a", "r", "a", "-", "0", "2">>,
     Title |-> <<"R", "e", "t", "a", "i", "l", " ", "S", "h", "o", "p", " ", "S", "p", "a", "c", "e", " ", "U", "t", "t", "a", "r", "a", " ", "S", "e", "c", " ", "4">>,
     Address |-> <<"S", "h", "o", "p", " ", "5", ",", " ", "G", "r", "o", "u", "n", "d", " ", "F", "l", "o", "o", "r", ",", " ", "U", "t", "t", "a", "r", "a", " ", "S", "e", "c", " ", "4", ",", " ", "D", "h", "a", "k", "a">>,
     Price |-> 3500000, Currency |-> <<"৳">>, Type |-> <<>>, ListingType |-> <<>>,
     Badges |-> <<<<"F", "o", "r", " ", "S", "a", "l", "e">>, <<"V", "e", "r", "i", "f", "i", "e", "d">>, <<"C", "o", "m", "m", "e", "r", "c", "i", "a", "l">>, <<"R", "e", "t", "a", "i", "l">>>>,
     Bedrooms |-> 0, Bathrooms |-> 1, Area |-> 800, Parking |-> 0],
    [ID |-> <<"m", "o", "c", "k", "-", "r", "e", "s", "-", "g", "u", "l", "s", "h", "a", "n", "-", "0", "1">>,
     Title |-> <<"E", "l", "e", "g", "a", "n", "t", " ", "P", "e", "n", "t", "h", "o", "u", "s", "e", " ", "i", "n", " ", "G", "u", "l", "s", "h", "a", "n", " ", "2">>,
     Address |-> <<"R", "o", "a", "d", " ", "7", "8", ",", " ", "G", "u", "l", "s", "h", "a", "n", " ", "2", ",", " ", "D", "h", "a", "k", "a">>,
     Price |-> 95000, Currency |-> <<"৳">>, Type |-> <<>>, ListingType |-> <<>>,
     Badges |-> <<<<"T", "o", "-", "l", "e", "t">>, <<"V", "e", "r", "i", "f", "i", "e", "d">>, <<"R", "e", "s", "i", "d", "e", "n", "t", "i", "a", "l">>, <<"F", "u", "l", "l", "y", " ", "F", "u", "r", "n", "i", "s", "h", "e", "d">>, <<"L", "u", "x", "u", "r", "y">>>>,
     Bedrooms |-> 5, Bathrooms |-> 5, Area |-> 3500, Parking |-> 3],
    [ID |-> <<"m", "o", "c", "k", "-", "r", "e", "s", "-", "g", "u", "l", "s", "h", "a", "n", "-", "0", "2">>,
     Title |-> <<"M", "o", "d", "e", "r", "n", " ", "3", "B", "R", " ", "F", "l", "a", "t", " ", "G", "u", "l", "s", "h", "a", "n", " ", "1">>,
     Address |-> <<"H", "o", "u", "s", "e", " ", "4", "5", ",", " ", "R", "o", "a", "d", " ", "1", "2", ",", " ", "G", "u", "l", "s", "h", "a", "n", " ", "1", ",", " ", "D", "h", "a", "k", "a">>,
     Price |-> 65000, Currency |-> <<"৳">>, Type |-> <<>>, ListingType |-> <<>>,
     Badges |-> <<<<"T", "o", "-", "l", "e", "t">>, <<"V", "e", "r", "i", "f", "i", "e", "d">>, <<"R", "e", "s", "i", "d", "e", "n", "t", "i", "a", "l">>, <<"S", "e", "m", "i", "-", "F", "u", "r", "n", "i", "s", "h", "e", "d">>>>,
     Bedrooms |-> 3, Bathrooms |-> 2, Area |-> 1600, Parking |-> 2],
    [ID |-> <<"m", "o", "c", "k", "-", "c", "o", "m", "-", "g", "u", "l", "s", "h", "a", "n", "-", "0", "1">>,
     Title |-> <<"C", "o", "r", "p", "o", "r", "a", "t", "e", " ", "O", "f", "f", "i", "c", "e", " ", "G", "u", "l", "s", "h", "a", "n", " ", "A", "v", "e", "n", "u", "e">>,
     Address |-> <<"G", "u", "l", "s", "h", "a", "n", " ", "A", "v", "e", "n", "u", "e", ",", " ", "G", "u", "l", "s", "h", "a", "n", " ", "1", ",", " ", "D", "h", "a", "k", "a">>,
     Price |-> 250000, Currency |-> <<"৳">>, Type |-> <<>>, ListingType |-> <<>>,
     Badges |-> <<<<"T", "o", "-", "l", "e", "t">>, <<"V", "e", "r", "i", "f", "i", "e", "d">>, <<"C", "o", "m", "m", "e", "r", "c", "i", "a", "l">>, <<"O", "f", "f", "i", "c", "e", " ", "S", "p", "a", "c", "e">>, <<"P", "r", "e", "m", "i", "u", "m">>>>,
     Bedrooms |-> 0, Bathrooms |-> 4, Area |-> 4000, Parking |-> 5],
    [ID |-> <<"m", "o", "c", "k", "-", "r", "e", "s", "-", "b", "a", "n", "a", "n", "i", "-", "0", "1">>,
     Title |-> <<"L", "u", "x", "u", "r", "i", "o", "u", "s", " ", "A", "p", "a", "r", "t", "m", "e", "n", "t", " ", "B", "a", "n", "a", "n", "i", " ", "D", "O", "H", "S">>,
     Address |-> <<"B", "l", "o", "c", "k", " ", "C", ",", " ", "R", "o", "a", "d", " ", "5", ",", " ", "B", "a", "n", "a", "n", "i", " ", "D", "O", "H", "S", ",", " ", "D", "h", "a", "k", "a">>,
     Price |-> 75000, Currency |-> <<"৳">>, Type |-> <<>>, ListingType |-> <<>>,
     Badges |-> <<<<"T", "o", "-", "l", "e", "t">>, <<"V", "e", "r", "i", "f", "i", "e", "d">>, <<"R", "e", "s", "i", "d", "e", "n", "t", "i", "a", "l">>, <<"F", "u", "l", "l", "y", " ", "F", "u", "r", "n", "i", "s", "h", "e", "d">>>>,
     Bedrooms |-> 4, Bathrooms |-> 4, Area |-> 2400, Parking |-> 2],
    [ID |-> <<"m", "o", "c", "k", "-", "r", "e", "s", "-", "b", "a", "n", "a", "n", "i", "-", "0", "2">>,
     Title |-> <<"2", " ", "B", "e", "d", "r", "o", "o", "m", " ", "A", "p", "a", "r", "t", "m", "e", "n", "t", " ", "i", "n", " ", "B", "a", "n", "a", "n", "i">>,
     Address |-> <<"R", "o", "a", "d", " ", "1", "1", ",", " ", "B", "a", "n", "a", "n", "i", ",", " ", "D", "h", "a", "k", "a">>,
     Price |-> 35000, Currency |-> <<"৳">>, Type |-> <<>>, ListingType |-> <<>>,
     Badges |-> <<<<"T", "o", "-", "l", "e", "t">>, <<"V", "e", "r", "i", "f", "i", "e", "d">>, <<"R", "e", "s", "i", "d", "e", "n", "t", "i", "a", "l">>>>,
     Bedrooms |-> 2, Bathrooms |-> 2, Area |-> 1100, Parking |-> 1],
    [ID |-> <<"m", "o", "c", "k", "-", "r", "e", "s", "-", "d", "h", "a", "n", "m", "o", "n", "d", "i", "-", "0", "1">>,
     Title |-> <<"B", "e", "a", "u", "t", "i", "f", "u", "l", " ", "L", "a", "k", "e", " ", "V", "i", "e", "w", " ", "F", "l", "a", "t", " ", "D", "h", "a", "n", "m", "o", "n", "d", "i">>,
     Address |-> <<"R", "o", "a", "d", " ", "8", "/", "A", ",", " ", "D", "h", "a", "n", "m", "o", "n", "d", "i", ",", " ", "D", "h", "a", "k", "a">>,
     Price |-> 55000, Currency |-> <<"৳">>, Type |-> <<>>, ListingType |-> <<>>,
     Badges |-> <<<<"T", "o", "-", "l", "e", "t">>, <<"V", "e", "r", "i", "f", "i", "e", "d">>, <<"R", "e", "s", "i", "d", "e", "n", "t", "i", "a", "l">>, <<"L", "a", "k", "e", " ", "V", "i", "e", "w">>>>,
     Bedrooms |-> 3, Bathrooms |-> 3, Area |-> 1900, Parking |-> 2],
    [ID |-> <<"m", "o", "c", "k", "-", "r", "e", "s", "-", "d", "h", "a", "n", "m", "o", "n", "d", "i", "-", "0", "2">>,
     Title |-> <<"S", "p", "a", "c", "i", "o", "u", "s", " ", "F", "a", "m", "i", "l", "y", " ", "A", "p", "a", "r", "t", "m", "e", "n", "t", " ", "D", "h", "a", "n", "m", "o", "n", "d", "i", " ", "1", "5">>,
     Address |-> <<"R", "o", "a", "d", " ", "1", "5", ",", " ", "D", "h", "a", "n", "m", "o", "n", "d", "i", ",", " ", "D", "h", "a", "k", "a">>,
     Price |-> 12000000, Currency |-> <<"৳">>, Type |-> <<>>, ListingType |-> <<>>,
     Badges |-> <<<<"F", "o", "r", " ", "S", "a", "l", "e">>, <<"V", "e", "r", "i", "f", "i", "e", "d">>, <<"R", "e", "s", "i", "d", "e", "n", "t", "i", "a", "l">>>>,
     Bedrooms |-> 4, Bathrooms |-> 3, Area |-> 2100, Parking |-> 2],
    [ID |-> <<"m", "o", "c", "k", "-", "c", "o", "m", "-", "d", "h", "a", "n", "m", "o", "n", "d", "i", "-", "0", "1">>,
     Title |-> <<"C", "o", "m", "m", "e", "r", "c", "i", "a", "l", " ", "S", "p", "a", "c", "e", " ", "S", "a", "t", "m", "a", "s", "j", "i", "d", " ", "R", "o", "a", "d">>,
     Address |-> <<"S", "a", "t", "m", "a", "s", "j", "i", "d", " ", "R", "o", "a", "d", ",", " ", "D", "h", "a", "n", "m", "o", "n", "d", "i", ",", " ", "D", "h", "a", "k", "a">>,
     Price |-> 85000, Currency |-> <<"৳">>, Type |-> <<>>, ListingType |-> <<>>,
     Badges |-> <<<<"T", "o", "-", "l", "e", "t">>, <<"V", "e", "r", "i", "f", "i", "e", "d">>, <<"C", "o", "m", "m", "e", "r", "c", "i", "a", "l">>, <<"R", "e", "t", "a", "i", "l">>>>,
     Bedrooms |-> 0, Bathrooms |-> 2, Area |-> 1500, Parking |-> 1],
    [ID |-> <<"m", "o", "c", "k", "-", "r", "e", "s", "-", "m", "i", "r", "p", "u", "r", "-", "0", "1">>,
     Title |-> <<"A", "f", "f", "o", "r", "d", "a", "b", "l", "e", " ", "F", "a", "m", "i", "l", "y", " ", "F", "l", "a", "t", " ", "M", "i", "r", "p", "u", "r", " ", "1", "0">>,
     Address |-> <<"R", "o", "a", "d", " ", "1", "2", ",", " ", "M", "i", "r", "p", "u", "r", " ", "1", "0", ",", " ", "D", "h", "a", "k", "a">>,
     Price |-> 22000, Currency |-> <<"৳">>, Type |-> <<>>, ListingType |-> <<>>,
     Badges |-> <<<<"T", "o", "-", "l", "e", "t">>, <<"V", "e", "r", "i", "f", "i", "e", "d">>, <<"R", "e", "s", "i", "d", "e", "n", "t", "i", "a", "l">>>>,
     Bedrooms |-> 3, Bathrooms |-> 2, Area |-> 1200, Parking |-> 1],
    [ID |-> <<"m", "o", "c", "k", "-", "r", "e", "s", "-", "m", "i", "r", "p", "u", "r", "-", "0", "2">>,
     Title |-> <<"B", "u", "d", "g", "e", "t", " ", "F", "r", "i", "e", "n", "d", "l", "y", " ", "2", "B", "R", " ", "M", "i", "r", "p", "u", "r", " ", "1", "1">>,
     Address |-> <<"S", "e", "c", "t", "i", "o", "n", " ", "1", "1", ",", " ", "M", "i", "r", "p", "u", "r", ",", " ", "D", "h", "a", "k", "a">>,
     Price |-> 16000, Currency |-> <<"৳">>, Type |-> <<>>, ListingType |-> <<>>,
     Badges |-> <<<<"T", "o", "-", "l", "e", "t">>, <<"V", "e", "r", "i", "f", "i", "e", "d">>, <<"R", "e", "s", "i", "d", "e", "n", "t", "i", "a", "l">>>>,
     Bedrooms |-> 2, Bathrooms |-> 1, Area |-> 900, Parking |-> 0],
    [ID |-> <<"m", "o", "c", "k", "-", "r", "e", "s", "-", "b", "a", "s", "h", "u", "n", "d", "h", "a", "r", "a", "-", "0", "1">>,
     Title |-> <<"M", "o", "d", "e", "r", "n", " ", "A", "p", "a", "r", "t", "m", "e", "n", "t", " ", "B", "a", "s", "h", "u", "n", "d", "h", "a", "r", "a", " ", "R", "/", "A">>,
     Address |-> <<"B", "l", "o", "c", "k", " ", "G", ",", " ", "R", "o", "a", "d", " ", "5", ",", " ", "B", "a", "s", "h", "u", "n", "d", "h", "a", "r", "a", " ", "R", "/", "A", ",", " ", "D", "h", "a", "k", "a">>,
     Price |-> 48000, Currency |-> <<"৳">>, Type |-> <<>>, ListingType |-> <<>>,
     Badges |-> <<<<"T", "o", "-", "l", "e", "t">>, <<"V", "e", "r", "i", "f", "i", "e", "d">>, <<"R", "e", "s", "i", "d", "e", "n", "t", "i", "a", "l">>, <<"S", "e", "m", "i", "-", "F", "u", "r", "n", "i", "s", "h", "e", "d">>>>,
     Bedrooms |-> 3, Bathrooms |-> 3, Area |-> 1700, Parking |-> 2],
    [ID |-> <<"m", "o", "c", "k", "-", "r", "e", "s", "-", "b", "a", "s", "h", "u", "n", "d", "h", "a", "r", "a", "-", "0", "2">>,
     Title |-> <<"L", "u", "x", "u", "r", "y", " ", "V", "i", "l", "l", "a", " ", "B", "a", "s", "h", "u", "n", "d", "h", "a", "r", "a">>,
     Address |-> <<"B", "l", "o", "c", "k", " ", "D", ",", " ", "B", "a", "s", "h", "u", "n", "d", "h", "a", "r", "a", " ", "R", "/", "A", ",", " ", "D", "h", "a", "k", "a">>,
     Price |-> 25000000, Currency |-> <<"৳">>, Type |-> <<>>, ListingType |-> <<>>,
     Badges |-> <<<<"F", "o", "r", " ", "S", "a", "l", "e">>, <<"V", "e", "r", "i", "f", "i", "e", "d">>, <<"R", "e", "s", "i", "d", "e", "n", "t", "i", "a", "l">>, <<"L", "u", "x", "u", "r", "y">>>>,
     Bedrooms |-> 6, Bathrooms |-> 6, Area |-> 4500, Parking |-> 4],
    [ID |-> <<"m", "o", "c", "k", "-", "r", "e", "s", "-", "m", "o", "h", "a", "m", "m", "a", "d", "p", "u", "r", "-", "0", "1">>,
     Title |-> <<"C", "o", "m", "f", "o", "r", "t", "a", "b", "l", "e", " ", "F", "l", "a", "t", " ", "M", "o", "h", "a", "m", "m", "a", "d", "p", "u", "r">>,
     Address |-> <<"N", "o", "b", "o", "d", "o", "y", " ", "H", "o", "u", "s", "i", "n", "g", ",", " ", "M", "o", "h", "a", "m", "m", "a", "d", "p", "u", "r", ",", " ", "D", "h", "a", "k", "a">>,
     Price |-> 20000, Currency |-> <<"৳">>, Type |-> <<>>, ListingType |-> <<>>,
     Badges |-> <<<<"T", "o", "-", "l", "e", "t">>, <<"V", "e", "r", "i", "f", "i", "e", "d">>, <<"R", "e", "s", "i", "d", "e", "n", "t", "i", "a", "l">>>>,
     Bedrooms |-> 2, Bathrooms |-> 2, Area |-> 1000, Parking |-> 1],
    [ID |-> <<"m", "o", "c", "k", "-", "h", "o", "s", "t", "e", "l", "-", "0", "1">>,
     Title |-> <<"S", "t", "u", "d", "e", "n", "t", " ", "H", "o", "s", "t", "e", "l", " ", "N", "e", "a", "r", " ", "N", "S", "U", " ", "B", "a", "s", "h", "u", "n", "d", "h", "a", "r", "a">>,
     Address |-> <<"N", "e", "a", "r", " ", "N", "S", "U", ",", " ", "B", "a", "s", "h", "u", "n", "d", "h", "a", "r", "a", ",", " ", "D", "h", "a", "k", "a">>,
     Price |-> 8000, Currency |-> <<"৳">>, Type |-> <<>>, ListingType |-> <<>>,
     Badges |-> <<<<"T", "o", "-", "l", "e", "t">>, <<"V", "e", "r", "i", "f", "i", "e", "d">>, <<"H", "o", "s", "t", "e", "l">>, <<"S", "h", "a", "r", "e", "d">>>>,
     Bedrooms |-> 1, Bathrooms |-> 1, Area |-> 250, Parking |-> 0],
    [ID |-> <<"m", "o", "c", "k", "-", "h", "o", "s", "t", "e", "l", "-", "0", "2">>,
     Title |-> <<"W", "o", "r", "k", "i", "n", "g", " ", "P", "r", "o", "f", "e", "s", "s", "i", "o", "n", "a", "l", " ", "H", "o", "s", "t", "e", "l", " ", "U", "t", "t", "a", "r", "a">>,
     Address |-> <<"S", "e", "c", "t", "o", "r", " ", "9", ",", " ", "U", "t", "t", "a", "r", "a", ",", " ", "D", "h", "a", "k", "a">>,
     Price |-> 12000, Currency |-> <<"৳">>, Type |-> <<>>, ListingType |-> <<>>,
     Badges |-> <<<<"T", "o", "-", "l", "e", "t">>, <<"V", "e", "r", "i", "f", "i", "e", "d">>, <<"H", "o", "s", "t", "e", "l">>, <<"F", "u", "r", "n", "i", "s", "h", "e", "d">>>>,
     Bedrooms |-> 1, Bathrooms |-> 1, Area |-> 350, Parking |-> 0],
    [ID |-> <<"m", "o", "c", "k", "-", "s", "t", "r", "-", "0", "1">>,
     Title |-> <<"S", "e", "r", "v", "i", "c", "e", " ", "A", "p", "a", "r", "t", "m", "e", "n", "t", " ", "B", "a", "n", "a", "n", "i", " ", "(", "D", "a", "i", "l", "y", "/", "M", "o", "n", "t", "h", "l", "y", ")">>,
     Address |-> <<"R", "o", "a", "d", " ", "1", "7", ",", " ", "B", "a", "n", "a", "n", "i", ",", " ", "D", "h", "a", "k", "a">>,
     Price |-> 3500, Currency |-> <<"৳">>, Type |-> <<>>, ListingType |-> <<>>,
     Badges |-> <<<<"T", "o", "-", "l", "e", "t">>, <<"V", "e", "r", "i", "f", "i", "e", "d">>, <<"S", "h", "o", "r", "t", " ", "T", "e", "r", "m", " ", "R", "e", "n", "t", "a", "l">>, <<"F", "u", "l", "l", "y", " ", "F", "u", "r", "n", "i", "s", "h", "e", "d">>>>,
     Bedrooms |-> 1, Bathrooms |-> 1, Area |-> 550, Parking |-> 0],
    [ID |-> <<"m", "o", "c", "k", "-", "s", "t", "r", "-", "0", "2">>,
     Title |-> <<"S", "e", "r", "v", "i", "c", "e", "d", " ", "S", "t", "u", "d", "i", "o", " ", "G", "u", "l", "s", "h", "a", "n", " ", "2">>,
     Address |-> <<"R", "o", "a", "d", " ", "8", "6", ",", " ", "G", "u", "l", "s", "h", "a", "n", " ", "2", ",", " ", "D", "h", "a", "k", "a">>,
     Price |-> 4500, Currency |-> <<"৳">>, Type |-> <<>>, ListingType |-> <<>>,
     Badges |-> <<<<"T", "o", "-", "l", "e", "t">>, <<"V", "e", "r", "i", "f", "i", "e", "d">>, <<"S", "h", "o", "r", "t", " ", "T", "e", "r", "m", " ", "R", "e", "n", "t", "a", "l">>, <<"L", "u", "x", "u", "r", "y">>>>,
     Bedrooms |-> 1, Bathrooms |-> 1, Area |-> 600, Parking |-> 1]
>>

\* contains: case-insensitive substring
contains(sArg, substrArg) ==
    Value({
        StrContains(ToLower(s), ToLower(substr))
        : s \in {sArg}, substr \in {substrArg}})

\* containsAny(slice, vals...): some value equals, or is a substring of, some
\* element, ignoring case
containsAny(sliceArg, valsArg) ==
    Value({
        \E v \in 1..Len(vals) : \E i \in 1..Len(slice) :
            \/ ToLower(slice[i]) = ToLower(vals[v])
            \/ StrContains(ToLower(slice[i]), ToLower(vals[v]))
        : slice \in {sliceArg}, vals \in {valsArg}})

parseIntParam(sArg, defaultVal) ==
    Value({
        LET r == Atoi(TrimSpace(s))
        IN  IF s = <<>> THEN defaultVal
            ELSE IF ~r.ok \/ r.val < 0 THEN defaultVal
            ELSE r.val
        : s \in {sArg}})

\* parseFloatParam(s, 0): every call site passes the default 0
parseFloatParam(sArg) ==
    Value({
        LET r == ParseFloat(TrimSpace(s))
        IN  IF s = <<>> THEN DecimalOfInt(0)
            ELSE IF ~r.ok \/ DecLtZero(r) THEN DecimalOfInt(0)
            ELSE r
        : s \in {sArg}})

normalizeMockStatus(statusArg) ==
    Value({
        LET statusLower == ToLower(TrimSpace(status))
        IN  CASE statusLower = <<"l", "i", "s", "t", "e", "d", "_", "r", "e", "n", "t", "a", "l">> -> <<"T", "o", "-", "l", "e", "t">>
              [] statusLower = <<"l", "i", "s", "t", "e", "d", "_", "s", "a", "l", "e">> -> <<"F", "o", "r", " ", "S", "a", "l", "e">>
              [] statusLower \in {<<"r", "e", "a", "d", "y", "_", "f", "o", "r", "_", "l", "i", "s", "t", "i", "n", "g">>, <<"a", "c", "t", "i", "v", "e">>, <<"a", "v", "a", "i", "l", "a", "b", "l", "e">>} -> <<"T", "o", "-", "l", "e", "t">>
              [] statusLower \in {<<"f", "o", "r", "_", "s", "a", "l", "e">>, <<"s", "a", "l", "e">>} -> <<"F", "o", "r", " ", "S", "a", "l", "e">>
              [] statusLower \in {<<"l", "e", "a", "s", "e", "d">>, <<"r", "e", "n", "t", "e", "d">>} -> <<"L", "e", "a", "s", "e", "d">>
              [] OTHER -> titleize(statusLower)
        : status \in {statusArg}})

TruthyWords == {<<"t", "r", "u", "e">>, <<"y", "e", "s">>, <<"1">>}
FalsyWords == {<<"f", "a", "l", "s", "e">>, <<"n", "o">>, <<"0">>}

\* A tri-state filter: an explicit true needs the signal, an explicit false
\* needs its absence, anything else imposes nothing.
triStateOk(word, signal) ==
    IF word \in TruthyWords THEN signal
    ELSE IF word \in FalsyWords THEN ~signal
    ELSE TRUE

\* A parking filter that asks for the exact number of spaces throughout
parkingMatchesExactly(spaces, parking) ==
    parking >= 0 => spaces = parking

\* Lines 2487-2500: the parking filter, parking being what parseIntParam made
\* of the parameter with -1 as its default
parkingMatches(spaces, parking) ==
    parking >= 0 =>
        IF parking >= 10 THEN ~(spaces < parking)
        ELSE IF parking >= 3 THEN ~(spaces < parking)
        ELSE spaces = parking

matchesMockFilters(propArg, qArg) ==
    Value({
        LET searchQuery  == cleanAnyValue(Get(q, "q"))
            location     == cleanAnyValue(Get(q, "location"))
            area         == cleanAnyValue(Get(q, "area"))
            neighborhood == cleanAnyValue(Get(q, "neighborhood"))
            types        == cleanAnyValue(Get(q, "types"))
            typeList     == Split(types, ",")
            propertyType == cleanAnyValue(Get(q, "type"))
            status       == cleanAnyValue(Get(q, "status"))
            statusList   == Split(status, ",")
            minPrice     == parseFloatParam(Get(q, "price_min"))
            maxPrice     == parseFloatParam(Get(q, "price_max"))
            parking      == parseIntParam(Get(q, "parking"), -1)
            areaMin      == parseFloatParam(Get(q, "area_min"))
            areaMax      == parseFloatParam(Get(q, "area_max"))
            bedrooms     == parseIntParam(Get(q, "bedrooms"), 0)
            bathrooms    == parseIntParam(Get(q, "bathrooms"), 0)
            furnished    == cleanAnyValue(Get(q, "furnished"))
            serviced     == cleanAnyValue(Get(q, "serviced"))
            shared       == cleanAnyValue(firstNonEmpty(<<Get(q, "shared_room"), Get(q, "sharedRoom")>>))
            isServiced   == containsAny(prop.Badges, <<<<"S", "e", "r", "v", "i", "c", "e", "d">>>>) \/ contains(prop.Title, <<"s", "e", "r", "v", "i", "c", "e", "d">>)
            isShared     == contains(prop.Title, <<"s", "h", "a", "r", "e", "d">>)
                              \/ containsAny(prop.Badges, <<<<"S", "h", "a", "r", "e", "d">>, <<"S", "h", "a", "r", "e", "d", " ", "R", "o", "o", "m">>>>)
        IN  /\ searchQuery # <<>> =>
                 \/ contains(prop.Title, ToLower(searchQuery))
                 \/ contains(prop.Address, ToLower(searchQuery))
                 \/ containsAny(prop.Badges, <<ToLower(searchQuery)>>)
            /\ location # <<>> =>
                 contains(prop.Address, location) \/ contains(prop.Title, location)
            /\ area # <<>> =>
                 contains(prop.Address, area) \/ contains(prop.Title, area)
            /\ neighborhood # <<>> =>
                 contains(prop.Address, neighborhood) \/ contains(prop.Title, neighborhood)
            /\ types # <<>> =>
                 \E i \in 1..Len(typeList) : containsAny(prop.Badges, <<TrimSpace(typeList[i])>>)
            /\ propertyType # <<>> => containsAny(prop.Badges, <<propertyType>>)
            /\ status # <<>> =>
                 \E i \in 1..Len(statusList) :
                     containsAny(prop.Badges, <<normalizeMockStatus(TrimSpace(statusList[i]))>>)
            /\ DecGtZero(minPrice) => ~IntLtDec(prop.Price, minPrice)
            /\ DecGtZero(maxPrice) => ~IntGtDec(prop.Price, maxPrice)
            /\ parkingMatches(prop.Parking, parking)
            /\ (DecGtZero(areaMin) /\ prop.Area > 0) => ~IntLtDec(prop.Area, areaMin)
            /\ (DecGtZero(areaMax) /\ prop.Area > 0) => ~IntGtDec(prop.Area, areaMax)
            /\ bedrooms > 0 => ~(prop.Bedrooms < bedrooms)
            /\ bathrooms > 0 => ~(prop.Bathrooms < bathrooms)
            /\ furnished # <<>> =>
                 triStateOk(ToLower(furnished), containsAny(prop.Badges, <<<<"F", "u", "r", "n", "i", "s", "h", "e", "d">>>>))
            /\ serviced # <<>> => triStateOk(serviced, isServiced)
            /\ shared # <<>> => triStateOk(shared, isShared)
        : prop \in {propArg}, q \in {qArg}})

RECURSIVE deriveTypeFromBadges(_)
deriveTypeFromBadges(badgesArg) ==
    Value({
        IF badges = <<>> THEN <<>>
        ELSE LET clean == ToLower(TrimSpace(badges[1]))
             IN  IF clean \in {<<"r", "e", "s", "i", "d", "e", "n", "t", "i", "a", "l">>, <<"c", "o", "m", "m", "e", "r", "c", "i", "a", "l">>, <<"l", "a", "n", "d">>, <<"p", "l", "o", "t">>}
                 THEN titleize(clean)
                 ELSE deriveTypeFromBadges(Tail(badges))
        : badges \in {badgesArg}})

RECURSIVE deriveListingTypeFromBadges(_)
deriveListingTypeFromBadges(badgesArg) ==
    Value({
        IF badges = <<>> THEN <<>>
        ELSE LET clean == ToLower(TrimSpace(badges[1]))
             IN  IF StrContains(clean, <<"s", "a", "l", "e">>) THEN <<"F", "o", "r", " ", "S", "a", "l", "e">>
                 ELSE IF StrContains(clean, <<"t", "o", "-", "l", "e", "t">>) \/ StrContains(clean, <<"r", "e", "n", "t">>) THEN <<"T", "o", "-", "l", "e", "t">>
                 ELSE IF StrContains(clean, <<"l", "e", "a", "s", "e">>) THEN <<"L", "e", "a", "s", "e">>
                 ELSE deriveListingTypeFromBadges(Tail(badges))
        : badges \in {badgesArg}})

\* finalizeProperty on the fields the model keeps (the gallery, amenities and
\* coordinates it also fills are not part of the model's Property).
finalizeProperty(propArg) ==
    Value({
        [prop EXCEPT
            !.Type = IF prop.Type = <<>> THEN deriveTypeFromBadges(prop.Badges) ELSE prop.Type,
            !.ListingType = IF prop.ListingType = <<>>
                            THEN deriveListingTypeFromBadges(prop.Badges) ELSE prop.ListingType,
            !.Currency = IF prop.Currency = <<>> THEN <<"৳">> ELSE prop.Currency]
        : prop \in {propArg}})

(***************************************************************************)
(* int(math.Ceil(float64(total) / float64(limit))).  With limit = 0 the    *)
(* quotient is +Inf (total > 0) or NaN (total = 0), and Go leaves the      *)
(* conversion of either to int implementation-dependent: amd64 yields the  *)
(* minimum int64 for both, arm64 saturates +Inf to the maximum int64 and   *)
(* turns NaN into 0.  TLC's integers are 32 bits wide, so the two extreme  *)
(* int64 values are held by stand-ins of the same sign beyond every page   *)
(* number of the model; the code only compares them and multiplies by the  *)
(* limit, which is 0 whenever they arise.                                  *)
(***************************************************************************)
Architectures == {"amd64", "arm64"}
MinInt64 == 0 - 2^30
MaxInt64 == 2^30

\* A ceilDivToInt that rounds down
ceilDivToIntFloor(total, limit, arch) ==
    IF limit > 0 THEN total \div limit
    ELSE IF arch = "amd64" THEN MinInt64
    ELSE IF total > 0 THEN MaxInt64
    ELSE 0

ceilDivToInt(total, limit, arch) ==
    IF limit > 0 THEN (total + limit - 1) \div limit
    ELSE IF arch = "amd64" THEN MinInt64
    ELSE IF total > 0 THEN MaxInt64
    ELSE 0

\* The filter loop of getMockSearchResults
filterMock(qArg) ==
    Value({
        SelectSeq(getAllMockProperties, LAMBDA prop : matchesMockFilters(prop, q))
        : q \in {qArg}})

\* A paginateMock whose slice starts one item late
paginateMockShifted(filtered, page0, limit, arch) ==
    LET total  == Len(filtered)
        pages0 == ceilDivToInt(total, limit, arch)
        pages  == IF pages0 = 0 THEN 1 ELSE pages0
        page1  == IF page0 < 1 THEN 1 ELSE page0
        page   == IF page1 > pages THEN pages ELSE page1
        start0 == (page - 1) * limit + 1
        end0   == start0 + limit
        start  == IF start0 > total THEN total ELSE start0
        end    == IF end0 > total THEN total ELSE end0
        items  == SubSeq(filtered, start + 1, end)
    IN  [Items |-> [i \in 1..Len(items) |-> finalizeProperty(items[i])],
         Page |-> page, Pages |-> pages, Total |-> total]

\* Lines 1995-2030 on an already filtered list
paginateMock(filteredArg, page0, limit, arch) ==
    Value({
        LET total  == Len(filtered)
            pages0 == ceilDivToInt(total, limit, arch)
            pages  == IF pages0 = 0 THEN 1 ELSE pages0
            page1  == IF page0 < 1 THEN 1 ELSE page0
            page   == IF page1 > pages THEN pages ELSE page1
            start0 == (page - 1) * limit
            end0   == start0 + limit
            start  == IF start0 > total THEN total ELSE start0
            end    == IF end0 > total THEN total ELSE end0
            items  == SubSeq(filtered, start + 1, end)
        IN  [Items |-> [i \in 1..Len(items) |-> finalizeProperty(items[i])],
             Page |-> page, Pages |-> pages, Total |-> total]
        : filtered \in {filteredArg}})

getMockSearchResults(qArg, arch) ==
    Value({
        paginateMock(filterMock(q),
                     parseIntParam(Get(q, "page"), 1),
                     parseIntParam(Get(q, "limit"), 9),
                     arch)
        : q \in {qArg}})

(***************************************************************************)
(* Mock city and neighbourhood lists                                       *)
(***************************************************************************)

mockCities == <<<<"D", "h", "a", "k", "a">>, <<"C", "h", "i", "t", "t", "a", "g", "o", "n", "g">>, <<"S", "y", "l", "h", "e", "t">>, <<"K", "h", "u", "l", "n", "a">>, <<"R", "a", "j", "s", "h", "a", "h", "i">>>>

mockNeighborhoods(cityArg) ==
    Value({
        LET key == ToLower(TrimSpace(city))
        IN  CASE key = <<"d", "h", "a", "k", "a">> ->
                   <<<<"G", "u", "l", "s", "h", "a", "n">>, <<"B", "a", "n", "a", "n", "i">>, <<"U", "t", "t", "a", "r", "a">>, <<"D", "h", "a", "n", "m", "o", "n", "d", "i">>, <<"B", "a", "s", "h", "u", "n", "d", "h", "a", "r", "a">>, <<"M", "i", "r", "p", "u", "r">>>>
              [] key = <<"c", "h", "i", "t", "t", "a", "g", "o", "n", "g">> -> <<<<"A", "g", "r", "a", "b", "a", "d">>, <<"N", "a", "s", "i", "r", "a", "b", "a", "d">>, <<"P", "a", "h", "a", "r", "t", "a", "l", "i">>>>
              [] key = <<"s", "y", "l", "h", "e", "t">> -> <<<<"Z", "i", "n", "d", "a", " ", "B", "a", "z", "a", "r">>, <<"A", "m", "b", "e", "r", "k", "h", "a", "n", "a">>, <<"M", "i", "r", "a", "b", "a", "z", "a", "r">>>>
              [] key = <<"k", "h", "u", "l", "n", "a">> -> <<<<"S", "o", "n", "a", "d", "a", "n", "g", "a">>, <<"K", "h", "a", "l", "i", "s", "h", "p", "u", "r">>, <<"M", "u", "j", "g", "u", "n", "n", "i">>>>
              [] key = <<"r", "a", "j", "s", "h", "a", "h", "i">> -> <<<<"U", "t", "t", "a", "r", "a">>, <<"B", "o", "a", "l", "i", "a">>, <<"R", "a", "j", "p", "a", "r", "a">>>>
              [] OTHER -> <<<<"C", "e", "n", "t", "r", "a", "l">>, <<"N", "o", "r", "t", "h">>, <<"S", "o", "u", "t", "h">>>>
        : city \in {cityArg}})

\* Byte order of the characters that occur in neighbourhood names
CharOrder == <<" ", "A", "B", "C", "D", "E", "F", "G", "H", "I", "J", "K", "L", "M", "N", "O", "P", "Q", "R", "S", "T", "U", "V", "W", "X", "Y", "Z", "a", "b", "c", "d", "e", "f", "g", "h", "i", "j", "k", "l", "m", "n", "o", "p", "q", "r", "s", "t", "u", "v", "w", "x", "y", "z">>
CharCode(ch) == CHOOSE i \in 1..Len(CharOrder) : CharOrder[i] = ch

\* Go's < on strings
RECURSIVE StrLess(_, _)
StrLess(aArg, bArg) ==
    Value({
        IF b = <<>> THEN FALSE
        ELSE IF a = <<>> THEN TRUE
        ELSE IF a[1] = b[1] THEN StrLess(Tail(a), Tail(b))
        ELSE CharCode(a[1]) < CharCode(b[1])
        : a \in {aArg}, b \in {bArg}})

\* The order sort.Slice is given in mockTopNeighborhoods
statBefore(x, y) ==
    IF x.Count = y.Count THEN StrLess(x.Neighborhood, y.Neighborhood)
    ELSE x.Count > y.Count

RECURSIVE sortStats(_)
sortStats(SArg) ==
    Value({
        IF S = {} THEN <<>>
        ELSE LET first == CHOOSE x \in S : \A y \in S \ {x} : statBefore(x, y)
             IN  <<first>> \o sortStats(S \ {first})
        : S \in {SArg}})

mockTopNeighborhoods(limit0Arg, city0Arg) ==
    Value({
        LET limit == IF limit0 <= 0 THEN 10 ELSE limit0
            city  == titleize(firstNonEmpty(<<cleanAnyValue(city0), <<"D", "h", "a", "k", "a">>>>))
            areas == mockNeighborhoods(city)
            names == {TrimSpace(areas[i]) : i \in 1..Len(areas)} \ {<<>>}
            props == getAllMockProperties
            count(area) ==
                Cardinality({i \in 1..Len(props) :
                    \/ StrContains(ToLower(TrimSpace(props[i].Address)), ToLower(area))
                    \/ StrContains(ToLower(TrimSpace(props[i].Title)), ToLower(area))})
            counts == [a \in names |-> count(a)]
            stats == sortStats({[Neighborhood |-> a, City |-> city, Count |-> counts[a]] :
                                a \in {n \in names : counts[n] > 0}})
        IN  IF Len(stats) > limit THEN SubSeq(stats, 1, limit) ELSE stats
        : limit0 \in {limit0Arg}, city0 \in {city0Arg}})

RECURSIVE mockPropertyScan(_, _)
mockPropertyScan(idArg, i) ==
    Value({
        IF i > Len(getAllMockProperties) THEN [found |-> FALSE, prop |-> <<>>]
        ELSE IF EqualFold(getAllMockProperties[i].ID, id)
             THEN [found |-> TRUE, prop |-> getAllMockProperties[i]]
        ELSE mockPropertyScan(id, i + 1)
        : id \in {idArg}})

mockPropertyByID(id) == mockPropertyScan(id, 1)

(***************************************************************************)
(* The API client.  Time is counted in tenths of a second, the unit in     *)
(* which a whole-second lifetime and its tenth are both integers.  A call  *)
(* is a single step at one instant: the duration of the HTTP exchange is   *)
(* not modelled.                                                           *)
(***************************************************************************)

Seconds(n) == n * 10
Minute == Seconds(60)

\* A New that does not read the mock flag
NewIgnoringMock(e) ==
    [Token |-> e.staticToken,
     hasCredentials |-> e.credentials,
     hasTokenURL |-> e.authURL # " ",
     mockEnabled |-> FALSE,
     cachedToken |-> "",
     tokenExpiry |-> 0]

\* api.New(): the Client built from the process environment.  The token URL
\* is the trimmed API_AUTH_URL, or the URL derived from the base when that
\* variable is unset (""): it is empty only when API_AUTH_URL is blank (" ").
New(e) ==
    [Token |-> e.staticToken,
     hasCredentials |-> e.credentials,
     hasTokenURL |-> e.authURL # " ",
     mockEnabled |-> e.mock,
     cachedToken |-> "",
     tokenExpiry |-> 0]

NoHeader == [scheme |-> "", token |-> ""]
Bearer(token) == [scheme |-> "Bearer", token |-> token]

\* What the token endpoint can answer to one credential exchange
TokenFailure(kind) == [kind |-> kind, access_token |-> "", expires_in |-> 0]
TokenGrant(token, expiresIn) == [kind |-> "ok", access_token |-> token, expires_in |-> expiresIn]

\* The errors getOAuthToken returns before it locks c.mu (lines 1008-1014)
EarlyTokenErrors == {"oauth credentials missing", "oauth token URL missing"}

\* A getOAuthToken that serves the cached token until the stored expiry
getOAuthTokenUntilExpiry(cl, t, resp) ==
    LET fail(msg, n) == [c |-> cl, token |-> "", err |-> msg, tokenReqs |-> n,
                         locks |-> IF msg \in EarlyTokenErrors THEN 0 ELSE 1]
        expiresIn == IF Seconds(resp.expires_in) <= 0 THEN 15 * Minute
                     ELSE Seconds(resp.expires_in)
        tenPercent == expiresIn \div 10
        refreshBefore == IF tenPercent < 2 * Minute THEN tenPercent ELSE 2 * Minute
    IN  IF ~cl.hasCredentials THEN fail("oauth credentials missing", 0)
        ELSE IF ~cl.hasTokenURL THEN fail("oauth token URL missing", 0)
        ELSE IF cl.cachedToken # "" /\ cl.tokenExpiry - t > 0
             THEN [c |-> cl, token |-> cl.cachedToken, err |-> "", tokenReqs |-> 0,
                   locks |-> 1]
        ELSE IF resp.kind = "neterr" THEN fail("network error", 1)
        ELSE IF resp.kind = "status" THEN fail("oauth token: status", 1)
        ELSE IF resp.kind = "malformed" THEN fail("decode error", 1)
        ELSE IF resp.access_token = "" THEN fail("oauth token: empty access_token", 1)
        ELSE [c |-> [cl EXCEPT !.cachedToken = resp.access_token,
                               !.tokenExpiry = t + (expiresIn - refreshBefore)],
              token |-> resp.access_token, err |-> "", tokenReqs |-> 1, locks |-> 1]

\* A getOAuthToken that drops the cached token when the exchange fails
getOAuthTokenForgetting(cl, t, resp) ==
    LET fail(msg, n) == [c |-> [cl EXCEPT !.cachedToken = "", !.tokenExpiry = 0],
                         token |-> "", err |-> msg, tokenReqs |-> n,
                         locks |-> IF msg \in EarlyTokenErrors THEN 0 ELSE 1]
        expiresIn == IF Seconds(resp.expires_in) <= 0 THEN 15 * Minute
                     ELSE Seconds(resp.expires_in)
        tenPercent == expiresIn \div 10
        refreshBefore == IF tenPercent < 2 * Minute THEN tenPercent ELSE 2 * Minute
    IN  IF ~cl.hasCredentials THEN fail("oauth credentials missing", 0)
        ELSE IF ~cl.hasTokenURL THEN fail("oauth token URL missing", 0)
        ELSE IF cl.cachedToken # "" /\ cl.tokenExpiry - t > Minute
             THEN [c |-> cl, token |-> cl.cachedToken, err |-> "", tokenReqs |-> 0,
                   locks |-> 1]
        ELSE IF resp.kind = "neterr" THEN fail("network error", 1)
        ELSE IF resp.kind = "status" THEN fail("oauth token: status", 1)
        ELSE IF resp.kind = "malformed" THEN fail("decode error", 1)
        ELSE IF resp.access_token = "" THEN fail("oauth token: empty access_token", 1)
        ELSE [c |-> [cl EXCEPT !.cachedToken = resp.access_token,
                               !.tokenExpiry = t + (expiresIn - refreshBefore)],
              token |-> resp.access_token, err |-> "", tokenReqs |-> 1, locks |-> 1]

\* A getOAuthToken whose refresh buffer is always a tenth of the lifetime
getOAuthTokenTenPercent(cl, t, resp) ==
    LET fail(msg, n) == [c |-> cl, token |-> "", err |-> msg, tokenReqs |-> n,
                         locks |-> IF msg \in EarlyTokenErrors THEN 0 ELSE 1]
        expiresIn == IF Seconds(resp.expires_in) <= 0 THEN 15 * Minute
                     ELSE Seconds(resp.expires_in)
        refreshBefore == expiresIn \div 10
    IN  IF ~cl.hasCredentials THEN fail("oauth credentials missing", 0)
        ELSE IF ~cl.hasTokenURL THEN fail("oauth token URL missing", 0)
        ELSE IF cl.cachedToken # "" /\ cl.tokenExpiry - t > Minute
             THEN [c |-> cl, token |-> cl.cachedToken, err |-> "", tokenReqs |-> 0,
                   locks |-> 1]
        ELSE IF resp.kind = "neterr" THEN fail("network error", 1)
        ELSE IF resp.kind = "status" THEN fail("oauth token: status", 1)
        ELSE IF resp.kind = "malformed" THEN fail("decode error", 1)
        ELSE IF resp.access_token = "" THEN fail("oauth token: empty access_token", 1)
        ELSE [c |-> [cl EXCEPT !.cachedToken = resp.access_token,
                               !.tokenExpiry = t + (expiresIn - refreshBefore)],
              token |-> resp.access_token, err |-> "", tokenReqs |-> 1, locks |-> 1]

\* getOAuthToken at instant t, the token endpoint answering resp if asked.
\* Yields the client afterwards, the token, the error ("" for nil), the
\* number of requests sent to the token endpoint and how often c.mu was
\* locked.
getOAuthToken(cl, t, resp) ==
    LET fail(msg, n) == [c |-> cl, token |-> "", err |-> msg, tokenReqs |-> n,
                         locks |-> IF msg \in EarlyTokenErrors THEN 0 ELSE 1]
        expiresIn == IF Seconds(resp.expires_in) <= 0 THEN 15 * Minute
                     ELSE Seconds(resp.expires_in)
        tenPercent == expiresIn \div 10
        refreshBefore == IF tenPercent < 2 * Minute THEN tenPercent ELSE 2 * Minute
    IN  IF ~cl.hasCredentials THEN fail("oauth credentials missing", 0)
        ELSE IF ~cl.hasTokenURL THEN fail("oauth token URL missing", 0)
        ELSE IF cl.cachedToken # "" /\ cl.tokenExpiry - t > Minute
             THEN [c |-> cl, token |-> cl.cachedToken, err |-> "", tokenReqs |-> 0,
                   locks |-> 1]
        ELSE IF resp.kind = "neterr" THEN fail("network error", 1)
        ELSE IF resp.kind = "status" THEN fail("oauth token: status", 1)
        ELSE IF resp.kind = "malformed" THEN fail("decode error", 1)
        ELSE IF resp.access_token = "" THEN fail("oauth token: empty access_token", 1)
        ELSE [c |-> [cl EXCEPT !.cachedToken = resp.access_token,
                               !.tokenExpiry = t + (expiresIn - refreshBefore)],
              token |-> resp.access_token, err |-> "", tokenReqs |-> 1, locks |-> 1]

\* A cache check that never finds a token
tokenCachedNever(cl, t) == FALSE

\* Line 1019: the cache holds a token that is good for more than a minute
tokenCached(cl, t) == cl.cachedToken # "" /\ cl.tokenExpiry - t > Minute

\* Lines 1024-1090: getOAuthToken once the cache check has failed
requestToken(cl, t, resp) ==
    LET r == getOAuthToken([f \in DOMAIN cl |-> IF f = "cachedToken" THEN "" ELSE cl[f]],
                           t, resp)
    IN  [c |-> IF r.err = "" THEN r.c ELSE cl, token |-> r.token, err |-> r.err]

\* An authorizationHeader that tries the client credentials before the static
\* token
authorizationHeaderOAuthFirst(cl, t, resp) ==
    LET r == getOAuthToken(cl, t, resp)
    IN  IF r.err = "" /\ r.token # ""
        THEN [c |-> r.c, header |-> Bearer(r.token), tokenReqs |-> r.tokenReqs,
              locks |-> r.locks]
        ELSE IF cl.Token # ""
             THEN [c |-> r.c, header |-> Bearer(cl.Token), tokenReqs |-> r.tokenReqs,
                   locks |-> r.locks]
        ELSE [c |-> r.c, header |-> NoHeader, tokenReqs |-> r.tokenReqs, locks |-> r.locks]

authorizationHeader(cl, t, resp) ==
    LET r == getOAuthToken(cl, t, resp)
    IN  IF cl.Token # ""
        THEN [c |-> cl, header |-> Bearer(cl.Token), tokenReqs |-> 0, locks |-> 0]
        ELSE IF r.err # "" \/ r.token = ""
             THEN [c |-> r.c, header |-> NoHeader, tokenReqs |-> r.tokenReqs, locks |-> r.locks]
        ELSE [c |-> r.c, header |-> Bearer(r.token), tokenReqs |-> r.tokenReqs,
              locks |-> r.locks]

\* decorateRequest: the Authorization header is set only when
\* authorizationHeader returns a non-empty one.
decorateRequest(method, path, header) ==
    [method |-> method, path |-> path, Authorization |-> header,
     hasAuthorization |-> header # NoHeader]

\* What one call hands back: the client afterwards, the result and error, the
\* upstream requests it sent and the token-endpoint requests it made.
Outcome(cl, result, err, sent, tokenReqs) ==
    [c |-> cl, result |-> result, err |-> err, sent |-> sent, tokenReqs |-> tokenReqs]

\* Upstream answers: a network error (timeouts included), or a response with
\* a status and a body that decodes into `body`, or fails to decode.
NetErr == [kind |-> "neterr", status |-> 0, decodes |-> FALSE, body |-> <<>>]
Response(status, body) == [kind |-> "resp", status |-> status, decodes |-> TRUE, body |-> body]
Undecodable(status) == [kind |-> "resp", status |-> status, decodes |-> FALSE, body |-> <<>>]

(***************************************************************************)
(* mapAssetToProperty on the asset fields the model carries: the top-level *)
(* object and its details object, each a map from key to string.  A nil    *)
(* map (a JSON null, or an object that is missing) is NilAsset.            *)
(***************************************************************************)

\* The zero Property
NoProperty ==
    [ID |-> <<>>, Title |-> <<>>, Address |-> <<>>, Price |-> 0, Currency |-> <<>>,
     Type |-> <<>>, ListingType |-> <<>>, Badges |-> <<>>,
     Bedrooms |-> 0, Bathrooms |-> 0, Area |-> 0, Parking |-> 0]

NilAsset == [nil |-> TRUE]

RECURSIVE firstString(_, _)
firstString(mArg, keysArg) ==
    Value({
        IF keys = <<>> THEN <<>>
        ELSE IF keys[1] \in DOMAIN m /\ TrimSpace(m[keys[1]]) # <<>> THEN TrimSpace(m[keys[1]])
        ELSE firstString(m, Tail(keys))
        : m \in {mArg}, keys \in {keysArg}})

RECURSIVE dedupAcc(_, _)
dedupAcc(valuesArg, accArg) ==
    Value({
        IF values = <<>> THEN acc
        ELSE LET v == TrimSpace(values[1])
             IN  IF v = <<>> \/ (\E i \in 1..Len(acc) : acc[i] = v)
                 THEN dedupAcc(Tail(values), acc)
                 ELSE dedupAcc(Tail(values), Append(acc, v))
        : values \in {valuesArg}, acc \in {accArg}})

dedupStrings(values) == dedupAcc(values, <<>>)

mapAssetToProperty(rawArg) ==
    Value({
        IF "nil" \in DOMAIN raw THEN NoProperty ELSE
        LET type0    == titleize(firstString(raw.top, <<"Type", "type">>))
            listing0 == titleize(firstString(raw.top, <<"Status", "status">>))
            title0   == firstNonEmpty(<<
                            firstString(raw.details, <<"listing_title", "listingTitle", "title">>),
                            firstString(raw.top, <<"Name", "name">>)>>)
            hasDetails == DOMAIN raw.details # {}
        IN  Value({
                finalizeProperty(
                    [ID |-> firstString(raw.top, <<"ID", "id">>),
                     Title |-> IF title = <<>> THEN <<"P", "r", "o", "p", "e", "r", "t", "y">> ELSE title,
                     Address |-> firstNonEmpty(<<firstString(raw.top, <<"Address", "address">>)>>),
                     Price |-> 0, Currency |-> <<"৳">>,
                     Type |-> type1, ListingType |-> listing1,
                     Badges |-> dedupStrings(<<type1, listing1,
                                    titleize(firstString(raw.details,
                                        <<"furnishingStatus", "furnishing_status">>))>>),
                     Bedrooms |-> 0, Bathrooms |-> 0, Area |-> 0, Parking |-> 0])
                : title \in {title0},
                  listing1 \in {IF hasDetails /\ listing0 = <<>>
                                THEN titleize(firstString(raw.details,
                                         <<"listing_type", "listingType">>))
                                ELSE listing0},
                  type1 \in {IF hasDetails /\ type0 = <<>>
                             THEN titleize(firstString(raw.details,
                                      <<"property_type", "propertyType">>))
                             ELSE type0}})
        : raw \in {rawArg}})

(***************************************************************************)
(* Read endpoints                                                          *)
(***************************************************************************)

\* doGet: decorate the request and send it
doGet(cl, t, tok, path) ==
    LET a == authorizationHeader(cl, t, tok)
    IN  [c |-> a.c, sent |-> <<decorateRequest("GET", path, a.header)>>,
         tokenReqs |-> a.tokenReqs]

\* Lines 275-318: the PropertyList built from a decoded payload
remotePropertyList(paramsArg, payloadArg) ==
    Value({
        LET reqPage  == Atoi(Get(params, "page"))
            reqLimit == Atoi(Get(params, "limit"))
            page  == IF payload.Page > 0 THEN payload.Page
                     ELSE IF reqPage.ok /\ reqPage.val > 0 THEN reqPage.val
                     ELSE 1
            limit == IF payload.Limit > 0 THEN payload.Limit
                     ELSE IF reqLimit.ok /\ reqLimit.val > 0 THEN reqLimit.val
                     ELSE IF Len(props) = 0 THEN 1
                     ELSE Len(props)
            total == IF payload.Total <= 0 THEN Len(props) ELSE payload.Total
            pages == IF total > 0 /\ limit > 0 THEN (total + limit - 1) \div limit ELSE 1
        IN  [Items |-> props, Page |-> page, Pages |-> pages, Total |-> total]
        : params \in {paramsArg}, payload \in {payloadArg},
          props \in {SelectSeq([i \in 1..Len(payloadArg.Data) |->
                                   mapAssetToProperty(payloadArg.Data[i])],
                               LAMBDA p : p.ID # <<>>)}})

\* What a call that sent the request g hands back
Sent(gArg, result, err) ==
    Value({
        Outcome(g.c, result, err, g.sent, g.tokenReqs)
        : g \in {gArg}})

\* A SearchProperties that hands the upstream failure to its caller
SearchPropertiesPropagating(cl, t, q, tok, up, arch) ==
    Value({
        IF cl.mockEnabled THEN Outcome(cl, getMockSearchResults(params, arch), "", <<>>, 0)
        ELSE IF up.kind = "neterr" \/ up.status # 200 \/ ~up.decodes
             THEN Sent(doGet(cl, t, tok, "/assets"),
                       [Items |-> <<>>, Page |-> 1, Pages |-> 1, Total |-> 0], "api error")
        ELSE Sent(doGet(cl, t, tok, "/assets"), remotePropertyList(params, up.body), "")
        : params \in {buildAssetSearchParams(q)}})

\* The three failure branches (network error, status other than 200, decode
\* error) each return getMockSearchResults(params), nil.
SearchProperties(cl, t, q, tok, up, arch) ==
    Value({
        IF cl.mockEnabled THEN Outcome(cl, getMockSearchResults(params, arch), "", <<>>, 0)
        ELSE IF up.kind = "neterr" \/ up.status # 200 \/ ~up.decodes
             THEN Sent(doGet(cl, t, tok, "/assets"), getMockSearchResults(params, arch), "")
        ELSE Sent(doGet(cl, t, tok, "/assets"), remotePropertyList(params, up.body), "")
        : params \in {buildAssetSearchParams(q)}})

\* parseStringList on a decoded body: a list of strings, an object holding
\* one under "data", or anything else
parseStringList(payload) ==
    IF payload.shape \in {"list", "data"}
    THEN dedupStrings(payload.items)
    ELSE <<>>

GetCities(cl, t, tok, up) ==
    LET g == doGet(cl, t, tok, "/assets/cities")
        cities == parseStringList(up.body)
    IN  IF cl.mockEnabled THEN Outcome(cl, mockCities, "", <<>>, 0)
        ELSE IF up.kind = "neterr" \/ up.status # 200 \/ ~up.decodes
             THEN Outcome(g.c, mockCities, "", g.sent, g.tokenReqs)
        ELSE IF Len(cities) = 0 THEN Outcome(g.c, mockCities, "", g.sent, g.tokenReqs)
        ELSE Outcome(g.c, cities, "", g.sent, g.tokenReqs)

GetNeighborhoods(cl, t, city0, tok, up) ==
    LET city  == cleanAnyValue(city0)
        g     == doGet(cl, t, tok, "/assets/neighborhoods")
        areas == parseStringList(up.body)
    IN  IF city = <<>> THEN Outcome(cl, <<>>, "neighborhoods: city is required", <<>>, 0)
        ELSE IF cl.mockEnabled THEN Outcome(cl, mockNeighborhoods(city), "", <<>>, 0)
        ELSE IF up.kind = "neterr" \/ up.status # 200 \/ ~up.decodes
             THEN Outcome(g.c, mockNeighborhoods(city), "", g.sent, g.tokenReqs)
        ELSE IF Len(areas) = 0
             THEN Outcome(g.c, mockNeighborhoods(city), "", g.sent, g.tokenReqs)
        ELSE Outcome(g.c, areas, "", g.sent, g.tokenReqs)

GetTopNeighborhoods(cl, t, limit0, city0, tok, up) ==
    LET limit == IF limit0 <= 0 THEN 10 ELSE limit0
        city  == cleanAnyValue(city0)
        g     == doGet(cl, t, tok, "/assets/neighborhoods/top")
        mock  == mockTopNeighborhoods(limit, city)
        named == SelectSeq(up.body, LAMBDA item : TrimSpace(item.Neighborhood) # <<>>)
        cleaned == [i \in 1..Len(named) |->
                       IF named[i].City = <<>> THEN [named[i] EXCEPT !.City = city]
                       ELSE named[i]]
    IN  IF cl.mockEnabled THEN Outcome(cl, mock, "", <<>>, 0)
        ELSE IF up.kind = "neterr" \/ up.status # 200 \/ ~up.decodes
             THEN Outcome(g.c, mock, "", g.sent, g.tokenReqs)
        ELSE IF Len(cleaned) = 0 THEN Outcome(g.c, mock, "", g.sent, g.tokenReqs)
        ELSE IF Len(cleaned) > limit
             THEN Outcome(g.c, SubSeq(cleaned, 1, limit), "", g.sent, g.tokenReqs)
        ELSE Outcome(g.c, cleaned, "", g.sent, g.tokenReqs)

GetProperty(cl, t, id, tok, up) ==
    LET g    == doGet(cl, t, tok, "/assets/{id}")
        mock == mockPropertyByID(id)
        fallback(err) ==
            IF mock.found THEN Outcome(g.c, finalizeProperty(mock.prop), "", g.sent, g.tokenReqs)
            ELSE Outcome(g.c, NoProperty, err, g.sent, g.tokenReqs)
        prop == mapAssetToProperty(up.body)
    IN  IF id = <<>> THEN Outcome(cl, NoProperty, "property id required", <<>>, 0)
        ELSE IF cl.mockEnabled
             THEN IF mock.found THEN Outcome(cl, finalizeProperty(mock.prop), "", <<>>, 0)
                  ELSE Outcome(cl, NoProperty, "property not found", <<>>, 0)
        ELSE IF up.kind = "neterr" THEN fallback("network error")
        ELSE IF up.status # 200 THEN fallback("api: status")
        ELSE IF ~up.decodes THEN fallback("decode error")
        ELSE Outcome(g.c, IF prop.ID = <<>>
                          THEN [f \in DOMAIN prop |-> IF f = "ID" THEN id ELSE prop[f]]
                          ELSE prop,
                     "", g.sent, g.tokenReqs)

(***************************************************************************)
(* Lead submission                                                         *)
(***************************************************************************)

StatusMultipleChoices == 300

\* A SubmitLead that reports success in mock mode without sending the lead
SubmitLeadMocked(cl, t, tok, up) ==
    LET a    == authorizationHeader(cl, t, tok)
        sent == <<decorateRequest("POST", "/leads", a.header)>>
    IN  IF cl.mockEnabled THEN Outcome(cl, <<>>, "", <<>>, 0)
        ELSE IF up.kind = "neterr" THEN Outcome(a.c, <<>>, "network error", sent, a.tokenReqs)
        ELSE IF up.status >= StatusMultipleChoices
             THEN Outcome(a.c, <<>>, "lead: status", sent, a.tokenReqs)
        ELSE Outcome(a.c, <<>>, "", sent, a.tokenReqs)

SubmitLead(cl, t, tok, up) ==
    LET a    == authorizationHeader(cl, t, tok)
        sent == <<decorateRequest("POST", "/leads", a.header)>>
    IN  IF up.kind = "neterr" THEN Outcome(a.c, <<>>, "network error", sent, a.tokenReqs)
        ELSE IF up.status >= StatusMultipleChoices
             THEN Outcome(a.c, <<>>, "lead: status", sent, a.tokenReqs)
        ELSE Outcome(a.c, <<>>, "", sent, a.tokenReqs)

(***************************************************************************)
(* Shortlists.  mockShortlists is one store for the whole process, a       *)
(* package-level variable with a mutex of its own; it maps a user key to   *)
(* the asset ids that user shortlisted.  The code stamps each id with the  *)
(* time it was added and lists them latest first: the model keeps each     *)
(* user's ids in that order.  The Property of the model does not carry the *)
(* IsShortlisted and ShortlistID fields.                                   *)
(***************************************************************************)

newMockShortlistStore ==
    [items |-> [k \in {<<"d", "e", "m", "o">>} |->
                   <<<<"m", "o", "c", "k", "-", "r", "e", "s", "-", "u", "t", "t", "a", "r", "a", "-", "0", "1">>, <<"m", "o", "c", "k", "-", "r", "e", "s", "-", "u", "t", "t", "a", "r", "a", "-", "0", "3">>,
                     <<"m", "o", "c", "k", "-", "c", "o", "m", "-", "b", "a", "d", "d", "a", "-", "0", "1">>, <<"m", "o", "c", "k", "-", "c", "o", "m", "-", "m", "o", "h", "a", "k", "h", "a", "l", "i", "-", "0", "1">>>>],
     defaultID |-> <<"m", "o", "c", "k", "-", "s", "h", "o", "r", "t", "l", "i", "s", "t", "-", "f", "a", "v", "o", "r", "i", "t", "e", "s">>]

\* A keyFor that keeps the token as it came
keyForUntrimmed(token) == token

keyFor(token) == TrimSpace(token)

\* The key ensureUser works with
userKey(token) == IF keyFor(token) = <<>> THEN <<"d", "e", "m", "o">> ELSE keyFor(token)

\* The store after ensureUser
ensureUser(s, token) ==
    IF userKey(token) \in DOMAIN s.items THEN s
    ELSE [s EXCEPT !.items = [k \in DOMAIN s.items \cup {userKey(token)} |->
                                 IF k \in DOMAIN s.items THEN s.items[k] ELSE <<>>]]

ShortlistStatus(assetID, shortlistID, isShortlisted) ==
    [AssetID |-> assetID, ShortlistID |-> shortlistID, IsShortlisted |-> isShortlisted]

\* What a shortlist call hands back: the store afterwards, the result and
\* error, and the upstream requests it sent
ShortOutcome(store, result, err, sent) ==
    [store |-> store, result |-> result, err |-> err, sent |-> sent]

\* mockShortlistStore.status
mockCheckShortlist(s, assetID, token) ==
    LET userItems == ensureUser(s, token).items[userKey(token)]
    IN  ShortOutcome(ensureUser(s, token),
                     ShortlistStatus(assetID, s.defaultID,
                                     \E i \in 1..Len(userItems) : userItems[i] = assetID),
                     "", <<>>)

\* mockShortlistStore.add: the id is stamped with the current time
mockAddToShortlist(s, assetID, token) ==
    LET s1 == ensureUser(s, token)
        userItems == s1.items[userKey(token)]
    IN  ShortOutcome([s1 EXCEPT !.items[userKey(token)] =
                         <<assetID>> \o SelectSeq(userItems, LAMBDA id : id # assetID)],
                     ShortlistStatus(assetID, s.defaultID, TRUE), "", <<>>)

\* mockShortlistStore.remove
mockRemoveFromShortlist(s, assetID, token) ==
    LET s1 == ensureUser(s, token)
        userItems == s1.items[userKey(token)]
    IN  ShortOutcome([s1 EXCEPT !.items[userKey(token)] =
                         SelectSeq(userItems, LAMBDA id : id # assetID)],
                     ShortlistStatus(assetID, s.defaultID, FALSE), "", <<>>)

\* The rows that are mock properties, finalized
RECURSIVE mockShortlistItems(_)
mockShortlistItems(rowsArg) ==
    Value({
        IF rows = <<>> THEN <<>>
        ELSE LET m == mockPropertyByID(rows[1])
             IN  (IF m.found THEN <<finalizeProperty(m.prop)>> ELSE <<>>)
                     \o mockShortlistItems(Tail(rows))
        : rows \in {rowsArg}})

\* mockShortlistStore.list
mockListShortlisted(s, token, page0, limit0) ==
    LET rows   == ensureUser(s, token).items[userKey(token)]
        page1  == IF page0 <= 0 THEN 1 ELSE page0
        limit  == IF limit0 <= 0 THEN 9 ELSE limit0
        total  == Len(rows)
        pages0 == (total + limit - 1) \div limit
        pages  == IF pages0 = 0 THEN 1 ELSE pages0
        page   == IF page1 > pages THEN pages ELSE page1
        start0 == (page - 1) * limit
        end0   == start0 + limit
        start  == IF start0 > total THEN total ELSE start0
        end    == IF end0 > total THEN total ELSE end0
    IN  ShortOutcome(ensureUser(s, token),
                     [Items |-> mockShortlistItems(SubSeq(rows, start + 1, end)),
                      Page |-> page, Pages |-> pages, Total |-> total],
                     "", <<>>)

\* decorateUserRequest: the request with the user's token, or the error
decorateUserRequest(method, path, userToken) ==
    IF TrimSpace(userToken) = <<>>
    THEN [err |-> "user token is required for shortlist requests", sent |-> <<>>]
    ELSE [err |-> "",
          sent |-> <<decorateRequest(method, path, Bearer(TrimSpace(userToken)))>>]

StatusOK == 200
StatusCreated == 201
StatusUnauthorized == 401

CheckShortlist(cl, s, assetID0, userToken, up) ==
    LET assetID == TrimSpace(assetID0)
        req     == decorateUserRequest("GET", "/shortlists/check/{id}", userToken)
        fail(err, sent) == ShortOutcome(s, ShortlistStatus(<<>>, <<>>, FALSE), err, sent)
    IN  IF assetID = <<>> THEN fail("asset id is required", <<>>)
        ELSE IF cl.mockEnabled THEN mockCheckShortlist(s, assetID, userToken)
        ELSE IF req.err # "" THEN fail(req.err, <<>>)
        ELSE IF up.kind = "neterr" THEN fail("network error", req.sent)
        ELSE IF up.status = StatusUnauthorized THEN fail("unauthorized", req.sent)
        ELSE IF up.status # StatusOK THEN fail("shortlist check: status", req.sent)
        ELSE IF ~up.decodes THEN fail("decode error", req.sent)
        ELSE ShortOutcome(s, IF up.body.AssetID = <<>>
                             THEN [up.body EXCEPT !.AssetID = assetID] ELSE up.body,
                          "", req.sent)

AddToShortlist(cl, s, assetID0, userToken, up) ==
    LET assetID == TrimSpace(assetID0)
        req     == decorateUserRequest("POST", "/shortlists/items", userToken)
        fail(err, sent) == ShortOutcome(s, ShortlistStatus(<<>>, <<>>, FALSE), err, sent)
    IN  IF assetID = <<>> THEN fail("asset id is required", <<>>)
        ELSE IF cl.mockEnabled THEN mockAddToShortlist(s, assetID, userToken)
        ELSE IF req.err # "" THEN fail(req.err, <<>>)
        ELSE IF up.kind = "neterr" THEN fail("network error", req.sent)
        ELSE IF up.status = StatusUnauthorized THEN fail("unauthorized", req.sent)
        ELSE IF up.status # StatusCreated /\ up.status # StatusOK
             THEN fail("shortlist add: status", req.sent)
        ELSE IF ~up.decodes
             THEN ShortOutcome(s, ShortlistStatus(assetID, <<>>, TRUE), "", req.sent)
        ELSE ShortOutcome(s, [up.body EXCEPT
                                 !.AssetID = IF @ = <<>> THEN assetID ELSE @,
                                 !.IsShortlisted = TRUE],
                          "", req.sent)

RemoveFromShortlist(cl, s, assetID0, userToken, up) ==
    LET assetID == TrimSpace(assetID0)
        req     == decorateUserRequest("DELETE", "/shortlists/items/{id}", userToken)
        fail(err, sent) == ShortOutcome(s, ShortlistStatus(<<>>, <<>>, FALSE), err, sent)
    IN  IF assetID = <<>> THEN fail("asset id is required", <<>>)
        ELSE IF cl.mockEnabled THEN mockRemoveFromShortlist(s, assetID, userToken)
        ELSE IF req.err # "" THEN fail(req.err, <<>>)
        ELSE IF up.kind = "neterr" THEN fail("network error", req.sent)
        ELSE IF up.status = StatusUnauthorized THEN fail("unauthorized", req.sent)
        ELSE IF up.status # StatusOK THEN fail("shortlist remove: status", req.sent)
        ELSE IF ~up.decodes
             THEN ShortOutcome(s, ShortlistStatus(assetID, <<>>, FALSE), "", req.sent)
        ELSE ShortOutcome(s, [up.body EXCEPT !.AssetID = IF @ = <<>> THEN assetID ELSE @],
                          "", req.sent)

\* The id of rows the loop of getDefaultShortlistID settles on: the first row
\* marked default that has an id, else the first row with an id
RECURSIVE defaultRow(_, _)
defaultRow(rowsArg, fallback) ==
    Value({
        IF rows = <<>> THEN fallback
        ELSE IF rows[1].id = <<>> THEN defaultRow(Tail(rows), fallback)
        ELSE IF rows[1].is_default THEN rows[1].id
        ELSE defaultRow(Tail(rows), IF fallback = <<>> THEN rows[1].id ELSE fallback)
        : rows \in {rowsArg}})

getDefaultShortlistID(cl, s, userToken, up) ==
    LET req == decorateUserRequest("GET", "/shortlists", userToken)
        fail(err, sent) == [id |-> <<>>, err |-> err, sent |-> sent]
    IN  IF cl.mockEnabled THEN [id |-> s.defaultID, err |-> "", sent |-> <<>>]
        ELSE IF req.err # "" THEN fail(req.err, <<>>)
        ELSE IF up.kind = "neterr" THEN fail("network error", req.sent)
        ELSE IF up.status = StatusUnauthorized THEN fail("unauthorized", req.sent)
        ELSE IF up.status # StatusOK THEN fail("shortlists: status", req.sent)
        ELSE IF ~up.decodes THEN fail("decode error", req.sent)
        ELSE IF defaultRow(up.body, <<>>) = <<>>
             THEN fail("no shortlist available for user", req.sent)
        ELSE [id |-> defaultRow(up.body, <<>>), err |-> "", sent |-> req.sent]

\* Lines 519-534: the Property of each row of the shortlist
shortlistProps(rows) ==
    [i \in 1..Len(rows) |->
        Value({IF prop.ID = <<>>
               THEN [f \in DOMAIN prop |-> IF f = "ID" THEN rows[i].asset_id ELSE prop[f]]
               ELSE prop
               : prop \in {mapAssetToProperty(rows[i].asset)}})]

\* Lines 536-560: the PropertyList from the decoded payload (a number that
\* is absent from the payload is 0 here)
shortlistPage(payloadArg, page0, limit0) ==
    Value({
        LET props == shortlistProps(payload.items)
            page  == IF payload.page > 0 THEN payload.page ELSE page0
            limit == IF payload.limit > 0 THEN payload.limit ELSE limit0
            total == IF payload.total > 0 THEN payload.total ELSE Len(props)
            pages == IF payload.pages > 0 THEN payload.pages
                     ELSE IF limit > 0 /\ total > 0 THEN (total + limit - 1) \div limit
                     ELSE 1
        IN  [Items |-> props, Page |-> page, Pages |-> pages, Total |-> total]
        : payload \in {payloadArg}})

NoPropertyList == [Items |-> <<>>, Page |-> 0, Pages |-> 0, Total |-> 0]

ListShortlisted(cl, s, userToken, page0, limit0, upLists, upItems) ==
    LET page  == IF page0 <= 0 THEN 1 ELSE page0
        limit == IF limit0 <= 0 THEN 9 ELSE limit0
        d     == getDefaultShortlistID(cl, s, userToken, upLists)
        req   == decorateUserRequest("GET", "/shortlists/{id}", userToken)
        sent  == d.sent \o req.sent
        fail(err) == ShortOutcome(s, NoPropertyList, err, sent)
    IN  IF cl.mockEnabled THEN mockListShortlisted(s, userToken, page, limit)
        ELSE IF d.err = "no shortlist available for user"
             THEN ShortOutcome(s, [Items |-> <<>>, Page |-> 1, Pages |-> 1, Total |-> 0],
                               "", d.sent)
        ELSE IF d.err # "" THEN ShortOutcome(s, NoPropertyList, d.err, d.sent)
        ELSE IF upItems.kind = "neterr" THEN fail("network error")
        ELSE IF upItems.status = StatusUnauthorized THEN fail("unauthorized")
        ELSE IF upItems.status # StatusOK THEN fail("shortlist list: status")
        ELSE IF ~upItems.decodes THEN fail("decode error")
        ELSE ShortOutcome(s, shortlistPage(upItems.body, page, limit), "", sent)

(***************************************************************************)
(* Inputs of the model                                                     *)
(***************************************************************************)

\* Raw queries handed to SearchProperties: defaults; page and limit 0; a page
\* beyond the last; a non-numeric page, a negative limit and a type filter;
\* the second page of five.
QueryDefault == EmptyValues
QueryZeroes == [k \in {"page", "limit"} |-> <<"0">>]
QueryBeyond == [k \in {"page", "limit"} |-> IF k = "page" THEN <<"9", "9">> ELSE <<"5">>]
QueryOdd ==
    [k \in {"page", "limit", "type"} |->
        CASE k = "page" -> <<"a", "b", "c">> [] k = "limit" -> <<"-", "2">> [] k = "type" -> <<"c", "o", "m", "m", "e", "r", "c", "i", "a", "l">>]
QuerySecond == [k \in {"page", "limit"} |-> IF k = "page" THEN <<"2">> ELSE <<"5">>]

ReadQueries == {QueryDefault, QueryZeroes, QueryBeyond, QueryOdd, QuerySecond}

\* Assets of an upstream payload: two with an id, one without
Asset(id, name) ==
    [top |-> [k \in {"id", "name"} |-> IF k = "id" THEN id ELSE name],
     details |-> EmptyValues]
AssetA == Asset(<<"a", "-", "1">>, <<"L", "a", "k", "e", " ", "f", "l", "a", "t">>)
AssetB ==
    [top |-> [k \in {"ID", "Status"} |-> IF k = "ID" THEN <<"b", "-", "2">> ELSE <<"l", "i", "s", "t", "e", "d", "_", "s", "a", "l", "e">>],
     details |-> [k \in {"property_type"} |-> <<"c", "o", "m", "m", "e", "r", "c", "i", "a", "l">>]]
AssetNoID == Asset(<<>>, <<>>)

Payload(data, page, limit, total) ==
    [Data |-> data, Page |-> page, Limit |-> limit, Total |-> total]

SearchPayloads ==
    {Payload(<<AssetA, AssetNoID>>, 0, 0, 0),
     Payload(<<AssetA>>, 3, 2, 3),
     Payload(<<>>, 1, 2, 0),
     Payload(<<AssetA, AssetB>>, 2, 1, 5)}

SearchUpstreams ==
    {NetErr, Response(500, Payload(<<>>, 0, 0, 0)), Response(201, Payload(<<AssetA>>, 1, 1, 1)),
     Undecodable(200)}
    \cup {Response(200, p) : p \in SearchPayloads}

StringList(shape, items) == [shape |-> shape, items |-> items]
ListUpstreams ==
    {NetErr, Response(404, StringList("other", <<>>)), Undecodable(200),
     Response(200, StringList("list", <<<<"D", "h", "a", "k", "a">>, <<" ", "D", "h", "a", "k", "a", " ">>, <<"B", "o", "g", "r", "a">>>>)),
     Response(200, StringList("list", <<>>)),
     Response(200, StringList("other", <<>>))}

Stat(n, city, count) == [Neighborhood |-> n, City |-> city, Count |-> count]
TopUpstreams ==
    {NetErr, Response(500, <<>>), Undecodable(200),
     Response(200, <<Stat(<<"G", "u", "l", "s", "h", "a", "n">>, <<>>, 7), Stat(<<" ">>, <<"D", "h", "a", "k", "a">>, 2), Stat(<<"B", "a", "n", "a", "n", "i">>, <<"D", "h", "a", "k", "a">>, 1)>>),
     Response(200, <<>>)}

PropertyUpstreams ==
    {NetErr, Response(500, AssetNoID), Undecodable(200), Response(200, AssetNoID),
     Response(200, AssetB), Response(200, NilAsset)}

LeadUpstreams == {NetErr, Response(200, <<>>), Response(201, <<>>), Response(299, <<>>),
                  Response(300, <<>>), Response(404, <<>>), Response(500, <<>>)}

CityInputs == {<<>>, <<" ", "A", "N", "Y", " ">>, <<"d", "h", "a", "k", "a">>, <<"B", "o", "g", "r", "a">>}
TopInputs == {<<0, <<>>>>, <<2, <<"a", "n", "y">>>>, <<1, <<"s", "y", "l", "h", "e", "t">>>>}
PropertyIDs == {<<>>, <<"m", "o", "c", "k", "-", "s", "t", "r", "-", "0", "2">>, <<"M", "O", "C", "K", "-", "R", "E", "S", "-", "U", "T", "T", "A", "R", "A", "-", "0", "1">>, <<"l", "i", "v", "e", "-", "7">>}

\* Shortlist calls: user tokens (blank, and two users), asset ids, and what
\* the upstream answers to a check, an add or a removal
UserTokens == {<<>>, <<"d", "e", "m", "o">>, <<" ", "u", "-", "1", " ">>}
ShortlistAssets == {<<>>, <<"m", "o", "c", "k", "-", "r", "e", "s", "-", "u", "t", "t", "a", "r", "a", "-", "0", "3">>, <<"l", "i", "v", "e", "-", "7">>}
StatusUpstreams ==
    {NetErr, Response(401, ShortlistStatus(<<>>, <<>>, FALSE)),
     Response(500, ShortlistStatus(<<>>, <<>>, FALSE)), Undecodable(200),
     Response(200, ShortlistStatus(<<>>, <<"s", "l", "-", "2">>, FALSE)),
     Response(201, ShortlistStatus(<<"a", "-", "1">>, <<"s", "l", "-", "2">>, TRUE))}

\* Answers of GET /shortlists: the user's shortlists
ShortlistRow(id, isDefault) == [id |-> id, is_default |-> isDefault]
ShortlistsUpstreams ==
    {NetErr, Response(401, <<>>), Response(200, <<>>),
     Response(200, <<ShortlistRow(<<>>, TRUE), ShortlistRow(<<"s", "l", "-", "1">>, FALSE),
                     ShortlistRow(<<"s", "l", "-", "2">>, TRUE)>>)}

\* Answers of GET /shortlists/{id}: rows with the asset embedded, and a row
\* that only names the asset
ShortlistItem(asset, assetID) == [asset |-> asset, asset_id |-> assetID]
ShortlistPayload(items, page, limit, total, pages) ==
    [items |-> items, page |-> page, limit |-> limit, total |-> total, pages |-> pages]
ShortlistItemsUpstreams ==
    {NetErr, Response(500, <<>>), Undecodable(200),
     Response(200, ShortlistPayload(<<ShortlistItem(AssetA, <<"a", "-", "1">>),
                                      ShortlistItem(AssetNoID, <<"b", "-", "2">>)>>, 0, 0, 0, 0)),
     Response(200, ShortlistPayload(<<ShortlistItem(AssetB, <<"b", "-", "2">>),
                                      ShortlistItem(NilAsset, <<"l", "i", "v", "e", "-", "7">>)>>, 2, 1, 5, 0))}
ShortlistPages == {0, 2}
ShortlistLimits == {0, 1}

\* Token-endpoint answers.  Lifetimes in seconds: 0 (the code then assumes
\* 15 minutes), 66 and 67 (around the shortest lifetime that can ever be
\* served from the cache), 1680 (long enough for the 2-minute cap).
TokenFailures ==
    {TokenFailure("neterr"), TokenFailure("status"), TokenFailure("malformed"),
     TokenGrant("", 900)}
TokenGrants ==
    {TokenGrant("tokA", 0), TokenGrant("tokB", 67), TokenGrant("tokA", 66),
     TokenGrant("tokB", 1680)}
TokenResponses == TokenFailures \cup TokenGrants
ReadTokenResponses == {TokenFailure("neterr"), TokenGrant("tokA", 0)}

\* Clock advances: a tenth of a second, and twelve and a half minutes
TickSteps == {1, Seconds(750)}
MaxTicks == 3

Environments ==
    [mock : BOOLEAN, staticToken : {"", "static-jwt"}, credentials : BOOLEAN,
     authURL : {""}]
\* Credentials with a blank API_AUTH_URL
BlankURLEnvironments ==
    [mock : {FALSE}, staticToken : {""}, credentials : {TRUE}, authURL : {" "}]

(***************************************************************************)
(* State                                                                   *)
(***************************************************************************)
VARIABLES
    arch,    \* the architecture the binary was built for
    env,     \* the process environment read by api.New
    c,       \* the Client the current handler works with
    now,     \* the clock, in tenths of a second
    ticks,   \* how often the clock advanced
    issued,  \* the last token grant any Client of the process stored
    ret,     \* the call in progress: its inputs, what it returned, what it sent
    crawl,   \* a walk through the pages of one mock search
    mockShortlists,  \* the package-level mock shortlist store
    mu,      \* c.mu: the goroutine that holds it, 0 when unlocked
    gor,     \* the goroutines calling getOAuthToken on c at the same time
    exchanges  \* the requests sent to the token endpoint, in order

vars == <<arch, env, c, now, ticks, issued, ret, crawl, mockShortlists, mu, gor, exchanges>>

NoIssue == [token |-> "", at |-> 0, expires_in |-> 0]
NoCall == [op |-> "none"]
NoCrawl == [next |-> 0]

NumGoroutines == 3
Goroutines == 1..NumGoroutines
NotCalled == [pc |-> "idle", token |-> "", err |-> ""]

\* The record of one call, with the Client and the grant held before it
Call(op, arg, tok, up, o) ==
    [op |-> op, arg |-> arg, tok |-> tok, up |-> up,
     before |-> c, held |-> issued,
     result |-> o.result, err |-> o.err, sent |-> o.sent, tokenReqs |-> o.tokenReqs]

\* The grant a call stored, if it stored one
issuedAfter(before, after, tok) ==
    IF after # before
    THEN [token |-> tok.access_token, at |-> now, expires_in |-> tok.expires_in]
    ELSE issued

InitClient(envs, archs) ==
    /\ arch \in archs
    /\ env \in envs
    /\ c = New(env)
    /\ now = 0
    /\ ticks = 0
    /\ issued = NoIssue
    /\ ret = NoCall
    /\ crawl = NoCrawl
    /\ mockShortlists = newMockShortlistStore
    /\ mu = 0
    /\ gor = [g \in Goroutines |-> NotCalled]
    /\ exchanges = <<>>

\* A call of a Client method by a handler that has none in progress: o is
\* what the method hands back.
Returns(op, arg, tok, up, o) ==
    /\ ret = NoCall
    /\ c' = o.c
    /\ issued' = issuedAfter(c, o.c, tok)
    /\ ret' = Call(op, arg, tok, up, o)
    /\ UNCHANGED <<arch, env, now, ticks, crawl, mockShortlists, mu, gor, exchanges>>

\* The handler writes its response and returns
Respond ==
    /\ ret # NoCall
    /\ ret' = NoCall
    /\ UNCHANGED <<arch, env, c, now, ticks, issued, crawl, mockShortlists, mu, gor, exchanges>>

Tick ==
    /\ ret = NoCall
    /\ ticks < MaxTicks
    /\ \E d \in TickSteps : now' = now + d
    /\ ticks' = ticks + 1
    /\ UNCHANGED <<arch, env, c, issued, ret, crawl, mockShortlists, mu, gor, exchanges>>

SearchPropertiesCall(cl, q, tok, up) == SearchProperties(cl, now, q, tok, up, arch)

DoSearchProperties(queries, toks, ups) ==
    \E q \in queries, tok \in toks, up \in ups :
        Returns("SearchProperties", q, tok, up, SearchPropertiesCall(c, q, tok, up))

\* handlers.SearchPage: a Client of its own, then one search
DoSearchPage(queries, toks, ups) ==
    \E q \in queries, tok \in toks, up \in ups :
        LET cl == New(env)
            o  == SearchPropertiesCall(cl, q, tok, up)
        IN  /\ ret = NoCall
            /\ c' = o.c
            /\ issued' = issuedAfter(cl, o.c, tok)
            /\ ret' = Call("SearchPage", q, tok, up, o)
            /\ UNCHANGED <<arch, env, now, ticks, crawl, mockShortlists, mu, gor, exchanges>>

DoGetCities(toks) ==
    \E tok \in toks, up \in ListUpstreams :
        Returns("GetCities", <<>>, tok, up, GetCities(c, now, tok, up))

DoGetNeighborhoods(toks) ==
    \E city \in CityInputs, tok \in toks, up \in ListUpstreams :
        Returns("GetNeighborhoods", city, tok, up, GetNeighborhoods(c, now, city, tok, up))

DoGetTopNeighborhoods(toks) ==
    \E in \in TopInputs, tok \in toks, up \in TopUpstreams :
        Returns("GetTopNeighborhoods", in, tok, up,
                GetTopNeighborhoods(c, now, in[1], in[2], tok, up))

DoGetProperty(toks) ==
    \E id \in PropertyIDs, tok \in toks, up \in PropertyUpstreams :
        Returns("GetProperty", id, tok, up, GetProperty(c, now, id, tok, up))

DoSubmitLead(toks, ups) ==
    \E tok \in toks, up \in ups :
        Returns("SubmitLead", <<>>, tok, up, SubmitLead(c, now, tok, up))

\* The call of getOAuthToken by authorizationHeader (line 987), its only
\* caller, which reaches it when no static token is configured
DoGetOAuthToken ==
    \E tok \in TokenResponses :
        LET r == getOAuthToken(c, now, tok)
        IN  /\ ret = NoCall
            /\ c.Token = ""
            /\ c' = r.c
            /\ issued' = issuedAfter(c, r.c, tok)
            /\ ret' = Call("getOAuthToken", <<>>, tok, NetErr,
                            Outcome(r.c, r.token, r.err, <<>>, r.tokenReqs))
            /\ UNCHANGED <<arch, env, now, ticks, crawl, mockShortlists, mu, gor, exchanges>>

\* A shortlist call by a handler that has no call in progress: cl is the
\* Client it works with and o what the method hands back.
ShortReturns(op, arg, up, o) ==
    /\ ret = NoCall
    /\ mockShortlists' = o.store
    /\ ret' = [op |-> op, arg |-> arg, up |-> up, store |-> mockShortlists,
               result |-> o.result, err |-> o.err, sent |-> o.sent]
    /\ UNCHANGED <<arch, env, c, now, ticks, issued, crawl, mu, gor, exchanges>>

DoCheckShortlist(cl, tokens) ==
    \E id \in ShortlistAssets, token \in tokens, up \in StatusUpstreams :
        ShortReturns("CheckShortlist", <<id, token>>, up,
                     CheckShortlist(cl, mockShortlists, id, token, up))

DoAddToShortlist(cl, tokens) ==
    \E id \in ShortlistAssets, token \in tokens, up \in StatusUpstreams :
        ShortReturns("AddToShortlist", <<id, token>>, up,
                     AddToShortlist(cl, mockShortlists, id, token, up))

DoRemoveFromShortlist(cl, tokens) ==
    \E id \in ShortlistAssets, token \in tokens, up \in StatusUpstreams :
        ShortReturns("RemoveFromShortlist", <<id, token>>, up,
                     RemoveFromShortlist(cl, mockShortlists, id, token, up))

DoListShortlisted(cl, tokens) ==
    \E token \in tokens, page \in ShortlistPages, limit \in ShortlistLimits,
       upLists \in ShortlistsUpstreams, upItems \in ShortlistItemsUpstreams :
        ShortReturns("ListShortlisted", <<token, page, limit>>, <<upLists, upItems>>,
                     ListShortlisted(cl, mockShortlists, token, page, limit,
                                     upLists, upItems))

\* decorateRequest asking for the header of the request it prepares
DoAuthorizationHeader(toks) ==
    \E tok \in toks :
        LET a == authorizationHeader(c, now, tok)
        IN  /\ ret = NoCall
            /\ c' = a.c
            /\ issued' = issuedAfter(c, a.c, tok)
            /\ ret' = Call("authorizationHeader", <<>>, tok, NetErr,
                            Outcome(a.c, [header |-> a.header, locks |-> a.locks],
                                    "", <<>>, a.tokenReqs))
            /\ UNCHANGED <<arch, env, now, ticks, crawl, mockShortlists, mu, gor, exchanges>>

(***************************************************************************)
(* SpecRead: the read endpoints and the lead submission under every        *)
(* upstream outcome, at one instant.                                       *)
(***************************************************************************)
InitRead == InitClient(Environments, Architectures)

ReadSearch == DoSearchProperties(ReadQueries, ReadTokenResponses, SearchUpstreams)
ReadCities == DoGetCities(ReadTokenResponses)
ReadNeighborhoods == DoGetNeighborhoods(ReadTokenResponses)
ReadTopNeighborhoods == DoGetTopNeighborhoods(ReadTokenResponses)
ReadProperty == DoGetProperty(ReadTokenResponses)
ReadSubmitLead == DoSubmitLead(ReadTokenResponses, LeadUpstreams)
\* The shortlist of the demo user, which every mock store holds
ReadShortlisted == DoListShortlisted(c, {<<"d", "e", "m", "o">>})

NextRead ==
    \/ ReadSearch
    \/ ReadCities
    \/ ReadNeighborhoods
    \/ ReadTopNeighborhoods
    \/ ReadProperty
    \/ ReadSubmitLead
    \/ ReadShortlisted
    \/ Respond

SpecRead == InitRead /\ [][NextRead]_vars

(***************************************************************************)
(* Properties of the read endpoints and the lead submission (SpecRead)     *)
(***************************************************************************)

ReadOps == {"GetCities", "GetNeighborhoods", "GetTopNeighborhoods", "GetProperty"}

\* The upstream did not answer 200 with a body that decodes
UpstreamFailed(up) == up.kind = "neterr" \/ up.status # 200 \/ ~up.decodes

\* C1: SearchProperties never returns an error, and when the upstream request
\* fails (network error, status other than 200, body that does not decode)
\* it returns exactly the mock result for the same normalized parameters.
SearchFallsBackToMock ==
    ret.op = "SearchProperties" =>
        /\ ret.err = ""
        /\ UpstreamFailed(ret.up) =>
               ret.result = getMockSearchResults(buildAssetSearchParams(ret.arg), arch)

\* A search that went upstream, was answered 500 and returned the 23 mock
\* properties' first page
SearchFellBackAfter500 ==
    /\ ret.op = "SearchProperties"
    /\ ~env.mock
    /\ ret.sent # <<>>
    /\ ret.up.kind = "resp" /\ ret.up.status = 500
    /\ ret.err = ""
    /\ ret.result.Total = 23 /\ Len(ret.result.Items) = 9

\* C2: GetCities, GetNeighborhoods, GetTopNeighborhoods and GetProperty never
\* return an error, whatever their argument.
ReadsNeverFail == ret.op \in ReadOps => ret.err = ""

MockAnswer(r) ==
    CASE r.op = "SearchProperties" ->
            getMockSearchResults(buildAssetSearchParams(r.arg), arch)
      [] r.op = "GetCities" -> mockCities
      [] r.op = "GetNeighborhoods" ->
            IF cleanAnyValue(r.arg) = <<>> THEN <<>>
            ELSE mockNeighborhoods(cleanAnyValue(r.arg))
      [] r.op = "GetTopNeighborhoods" ->
            mockTopNeighborhoods(r.arg[1], cleanAnyValue(r.arg[2]))
      [] r.op = "GetProperty" ->
            IF mockPropertyByID(r.arg).found
            THEN finalizeProperty(mockPropertyByID(r.arg).prop)
            ELSE NoProperty

\* C4: with the mock flag set, every read endpoint answers from the mock data
\* and sends no request, neither upstream nor to the token endpoint.
MockModeStaysLocal ==
    (env.mock /\ ret.op \in ReadOps \cup {"SearchProperties"}) =>
        /\ ret.sent = <<>>
        /\ ret.tokenReqs = 0
        /\ ret.result = MockAnswer(ret)

\* Mock mode with OAuth credentials configured: the top neighbourhoods came
\* from the mock data although the upstream would have answered
MockTopNeighborhoodsServed ==
    /\ env.mock /\ env.credentials /\ env.staticToken = ""
    /\ ret.op = "GetTopNeighborhoods"
    /\ ret.up.kind = "resp" /\ ret.up.status = 200 /\ ret.up.body # <<>>
    /\ Len(ret.result) = 6
    /\ ret.sent = <<>>

\* C5: every PropertyList SearchProperties returns has Pages >= 1 and
\* 1 <= Page <= Pages.
PageWithinPages ==
    ret.op = "SearchProperties" =>
        /\ ret.result.Pages >= 1
        /\ 1 <= ret.result.Page
        /\ ret.result.Page <= ret.result.Pages

(***************************************************************************)
(* SpecNorm: buildAssetSearchParams on queries that carry one filter under *)
(* one of its spellings, a page or a limit, or a filter set to "any".      *)
(***************************************************************************)
NormKeys ==
    {"type", "types", "location", "neighborhood", "area",
     "price_min", "minPrice", "price_max", "maxPrice"}
NormValues ==
    {<<"l", "a", "n", "d">>, <<" ", "C", "o", "m", "m", "e", "r", "c", "i", "a", "l", " ">>, <<"a", "n", "y">>, <<"G", "u", "l", "s", "h", "a", "n">>, <<"2", "0", "0", "0", "0">>, <<"2", "0", ",", "0", "0", "0">>, <<"1", "2", ".", "5", "0">>,
     <<"a", "b", "c">>}
\* Values of page and limit: absent, zero in three spellings, non-numeric,
\* negative and plain
PagingValues ==
    {<<>>, <<"0">>, <<" ", "0", " ">>, <<"0", "0">>, <<"a", "b", "c">>, <<"2", ".", "5">>, <<"-", "2">>, <<"5">>}
PagingQueries == {[k \in {key} |-> v] : key \in {"page", "limit"}, v \in PagingValues}

\* The filter fields buildAssetSearchParams reads
FilterKeys ==
    {"status", "listing_type", "listingType", "q", "location", "area",
     "neighborhood", "types", "type", "price_max", "maxPrice", "price_min",
     "minPrice", "city", "bedrooms", "bathrooms", "parking", "serviced",
     "shared_room", "area_min", "area_max", "furnished", "subunit_type",
     "exclude_leased"}
AnySpellings == {<<"a", "n", "y">>, <<"A", "N", "Y">>, <<" ", "A", "n", "y", " ">>}
FilterBases ==
    {EmptyValues,
     [k \in {"listingType"} |-> <<"r", "e", "n", "t">>],
     [k \in {"type", "maxPrice"} |-> IF k = "type" THEN <<"l", "a", "n", "d">> ELSE <<"2", "0", "0", "0", "0">>]}
\* A request with one more filter field, which carries "any"
AnyQueries ==
    {[k \in DOMAIN b \cup {key} |-> IF k = key THEN a ELSE b[k]] :
        b \in FilterBases, key \in FilterKeys, a \in AnySpellings}

\* Requests that carry both names of one alias pair, the preferred one first
AliasPairs ==
    {<<"types", "type">>, <<"neighborhood", "area">>,
     <<"price_min", "minPrice">>, <<"price_max", "maxPrice">>}
PairValues == {<<"l", "a", "n", "d">>, <<"G", "u", "l", "s", "h", "a", "n">>, <<"2", "0", "0", "0", "0">>, <<"3", "0", "0">>}
BothNameQueries ==
    {[k \in {p[1], p[2]} |-> IF k = p[1] THEN v ELSE w] :
        p \in AliasPairs, v \in PairValues, w \in PairValues}

NormQueries ==
    {[k \in {key} |-> v] : key \in NormKeys, v \in NormValues}
        \cup PagingQueries \cup AnyQueries \cup BothNameQueries

InitNorm == InitClient(Environments, Architectures)

Normalize ==
    /\ ret = NoCall
    /\ \E q \in NormQueries :
           ret' = [op |-> "buildAssetSearchParams", arg |-> q,
                   result |-> buildAssetSearchParams(q)]
    /\ UNCHANGED <<arch, env, c, now, ticks, issued, crawl, mockShortlists, mu, gor, exchanges>>

NextNorm ==
    \/ Normalize
    \/ Respond

SpecNorm == InitNorm /\ [][NextNorm]_vars

\* The query q with the key `from` spelled `to`
Rename(q, from, to) ==
    [k \in (DOMAIN q \ {from}) \cup {to} |-> IF k = to THEN q[from] ELSE q[k]]

\* The spellings of one filter and the upstream parameter they stand for
AliasGroups ==
    {[keys |-> {"type", "types"}, param |-> "types"],
     [keys |-> {"location", "neighborhood", "area"}, param |-> "neighborhood"],
     [keys |-> {"price_min", "minPrice"}, param |-> "price_min"]}

\* C10: within each alias group the normalizer produces the same upstream
\* parameter whichever key of the group carries the value.
AliasesNormalizeAlike ==
    ret.op = "buildAssetSearchParams" =>
        \A g \in AliasGroups :
            \A from \in g.keys \cap DOMAIN ret.arg :
                \A to \in g.keys \ DOMAIN ret.arg :
                    Get(buildAssetSearchParams(Rename(ret.arg, from, to)), g.param)
                        = Get(ret.result, g.param)

(***************************************************************************)
(* SpecMock: walks through the pages of mock searches, page after page     *)
(* from the first to the last, single requests for any page, and the       *)
(* filter applied to single properties.                                    *)
(***************************************************************************)
CrawlFilters ==
    {buildAssetSearchParams(f) :
        f \in {EmptyValues,
               [k \in {"type"} |-> <<"c", "o", "m", "m", "e", "r", "c", "i", "a", "l">>],
               [k \in {"location"} |-> <<"U", "t", "t", "a", "r", "a">>],
               [k \in {"q"} |-> <<"n", "o", " ", "s", "u", "c", "h", " ", "p", "l", "a", "c", "e">>]}}
CrawlLimits == {1, 2, 5, 9, 23, 30}
ProbePages == {0, 2, 4, 24, 99}

\* The filter f asked for page p with limit l
PageQuery(f, p, l) == SetKey(SetKey(f, "page", Itoa(p)), "limit", Itoa(l))

InitMock == InitClient({e \in Environments : e.mock}, Architectures)

StartCrawl ==
    /\ ret = NoCall
    /\ crawl = NoCrawl
    /\ \E f \in CrawlFilters, l \in CrawlLimits :
           crawl' = [next |-> 1, q |-> f, limit |-> l, items |-> <<>>, pages |-> 0]
    /\ UNCHANGED <<arch, env, c, now, ticks, issued, ret, mockShortlists, mu, gor, exchanges>>

\* The next page of the walk
FetchPage ==
    /\ ret = NoCall
    /\ crawl # NoCrawl
    /\ crawl.next = 1 \/ crawl.next <= crawl.pages
    /\ LET q == PageQuery(crawl.q, crawl.next, crawl.limit)
           r == getMockSearchResults(q, arch)
       IN  /\ ret' = [op |-> "getMockSearchResults", arg |-> q, page |-> crawl.next,
                      result |-> r]
           /\ crawl' = [crawl EXCEPT !.next = @ + 1, !.items = @ \o r.Items,
                                     !.pages = r.Pages]
    /\ UNCHANGED <<arch, env, c, now, ticks, issued, mockShortlists, mu, gor, exchanges>>

FinishCrawl ==
    /\ ret = NoCall
    /\ crawl # NoCrawl
    /\ crawl.next > 1 /\ crawl.next > crawl.pages
    /\ crawl' = NoCrawl
    /\ UNCHANGED <<arch, env, c, now, ticks, issued, ret, mockShortlists, mu, gor, exchanges>>

\* One request for any page, in range or not
ProbePage ==
    /\ ret = NoCall
    /\ crawl = NoCrawl
    /\ \E f \in CrawlFilters, l \in CrawlLimits, p \in ProbePages :
           LET q == PageQuery(f, p, l)
           IN  ret' = [op |-> "getMockSearchResults", arg |-> q, page |-> p,
                       result |-> getMockSearchResults(q, arch)]
    /\ UNCHANGED <<arch, env, c, now, ticks, issued, crawl, mockShortlists, mu, gor, exchanges>>

\* Values of the parking parameter: absent, the exact range, the open range,
\* unparseable and negative
ParkingValues ==
    {<<>>, <<"0">>, <<"1">>, <<"2">>, <<" ", "2", " ">>, <<"3">>, <<"4">>, <<"5">>, <<"6">>, <<"1", "0">>, <<"1", "2">>,
     <<"a", "b", "c">>, <<"2", ".", "5">>, <<"-", "1">>}

\* matchesMockFilters on one mock property and a parking filter alone
MatchParking ==
    /\ ret = NoCall
    /\ crawl = NoCrawl
    /\ \E i \in 1..Len(getAllMockProperties), v \in ParkingValues :
           LET q == IF v = <<>> THEN EmptyValues ELSE [k \in {"parking"} |-> v]
           IN  ret' = [op |-> "matchesMockFilters", prop |-> i, arg |-> q,
                       result |-> matchesMockFilters(getAllMockProperties[i], q)]
    /\ UNCHANGED <<arch, env, c, now, ticks, issued, crawl, mockShortlists, mu, gor, exchanges>>

\* Price bounds as a request spells them: absent, zero, unparseable,
\* negative, prices of mock properties, a price between two of them, a
\* fraction, and one above every price
PriceTexts ==
    {<<>>, <<"0">>, <<"a", "b", "c">>, <<"-", "5">>, <<"2", "0", "0", "0", "0">>, <<"4", "5", "0", "0", "0">>, <<"6", "0", "0", "0", "0">>, <<"2", "0", "0", "0", "0", ".", "5">>,
     <<"3", "0", "0", "0", "0", "0", "0", "0">>}

\* The filter loop of getMockSearchResults on the parameters SearchProperties
\* hands it for a request with price bounds alone
FilterPrices ==
    /\ ret = NoCall
    /\ crawl = NoCrawl
    /\ \E a \in PriceTexts, b \in PriceTexts :
           LET q == buildAssetSearchParams(
                        [k \in {"price_min", "price_max"} |->
                            IF k = "price_min" THEN a ELSE b])
               filtered == filterMock(q)
           IN  ret' = [op |-> "filterMock", arg |-> q,
                       result |-> [i \in 1..Len(filtered) |-> filtered[i].ID]]
    /\ UNCHANGED <<arch, env, c, now, ticks, issued, crawl, mockShortlists, mu, gor, exchanges>>

NextMock ==
    \/ StartCrawl
    \/ FetchPage
    \/ FinishCrawl
    \/ ProbePage
    \/ MatchParking
    \/ FilterPrices
    \/ Respond

SpecMock == InitMock /\ [][NextMock]_vars

Min(a, b) == IF a < b THEN a ELSE b

\* The items a list of properties is returned as
Finalized(props) == [i \in 1..Len(props) |-> finalizeProperty(props[i])]

Init == InitClient({e \in Environments : ~e.mock} \cup BlankURLEnvironments, {"amd64"})

TokenSearchUpstreams == {Response(200, Payload(<<AssetA>>, 1, 9, 1))}
TokenLeadUpstreams == {Response(201, <<>>), Response(500, <<>>)}
LaterTokenResponses == {TokenFailure("neterr"), TokenGrant("tokB", 1680)}

GetToken == DoGetOAuthToken
SearchPage == DoSearchPage({QueryDefault}, TokenResponses, TokenSearchUpstreams)
Search == DoSearchProperties({QueryDefault}, LaterTokenResponses, TokenSearchUpstreams)
Lead == DoSubmitLead(LaterTokenResponses, TokenLeadUpstreams)
Authorize == DoAuthorizationHeader(LaterTokenResponses)

Next ==
    \/ Tick
    \/ GetToken
    \/ SearchPage
    \/ Search
    \/ Lead
    \/ Authorize
    \/ Respond

Spec == Init /\ [][Next]_vars

\* The lifetime the code assumes for a grant of L seconds, and the time
\* before its end at which the stored expiry is set
Lifetime(L) == IF L <= 0 THEN Seconds(900) ELSE Seconds(L)
RefreshBuffer(L) == Min(2 * Minute, Lifetime(L) \div 10)

TokenReusedAcrossHandlers ==
    (/\ ret.op = "SearchPage"
     /\ env.staticToken = ""
     /\ ret.held.token # ""
     /\ now < ret.held.at + Lifetime(ret.held.expires_in)
                - RefreshBuffer(ret.held.expires_in) - Minute) =>
        /\ ret.tokenReqs = 0
        /\ \A i \in 1..Len(ret.sent) : ret.sent[i].Authorization = Bearer(ret.held.token)

\* C9: every upstream request of an authenticated call carries
\* Authorization: Bearer {token}, also when the token could not be acquired.
RequestsCarryBearer ==
    ret.op \in {"SearchPage", "SearchProperties", "SubmitLead"} =>
        \A i \in 1..Len(ret.sent) :
            /\ ret.sent[i].hasAuthorization
            /\ ret.sent[i].Authorization.scheme = "Bearer"
            /\ ret.sent[i].Authorization.token # ""

(***************************************************************************)
(* Normalization of paging, of "any" and of prices (SpecNorm)              *)
(***************************************************************************)
\* A page or limit value the defaults are meant for: absent, zero or
\* non-numeric
NeedsDefault(raw) ==
    LET n == Atoi(TrimSpace(raw))
    IN  raw = <<>> \/ ~n.ok \/ n.val = 0

\* C11: buildAssetSearchParams sets page to 1 when the supplied page is
\* absent, zero or non-numeric, and limit to 9 when the supplied limit is
\* absent, zero or non-numeric.
PagingDefaultsApplied ==
    ret.op = "buildAssetSearchParams" =>
        /\ NeedsDefault(Get(ret.arg, "page")) => Get(ret.result, "page") = <<"1">>
        /\ NeedsDefault(Get(ret.arg, "limit")) => Get(ret.result, "limit") = <<"9">>

\* The query q without the field k
Without(q, k) == [j \in DOMAIN q \ {k} |-> q[j]]

\* C12: a filter field that carries "any", in any letter case and with or
\* without surrounding spaces, gives the same normalized parameters and the
\* same mock search result as the request without that field.
AnyMeansOmitted ==
    ret.op = "buildAssetSearchParams" =>
        \A k \in DOMAIN ret.arg \cap FilterKeys :
            isAnyValue(ret.arg[k]) =>
                /\ ret.result = buildAssetSearchParams(Without(ret.arg, k))
                /\ getMockSearchResults(ret.result, arch)
                       = getMockSearchResults(buildAssetSearchParams(Without(ret.arg, k)), arch)

\* The price a raw value stands for: the decimal rendering of the positive
\* number left of it, or nothing
PriceOf(raw) ==
    LET p == parsePriceField(raw)
    IN  IF p.ok THEN FormatFloat(p) ELSE <<>>

\* The raw price values of q that stand for the bound `key`
PriceSources(q, key, legacy) == {Get(q, key), Get(q, legacy)} \ {<<>>}

\* C13: the normalized price_min and price_max are absent or the decimal
\* rendering of the positive number in a supplied raw value; raw text is
\* never passed through.
PricesNeverRaw ==
    ret.op = "buildAssetSearchParams" =>
        \A b \in {<<"price_min", "minPrice">>, <<"price_max", "maxPrice">>} :
            Get(ret.result, b[1]) \in
                {<<>>} \cup {PriceOf(raw) : raw \in PriceSources(ret.arg, b[1], b[2])}

(***************************************************************************)
(* SpecShort: shortlist requests, one after another.  Each handler builds  *)
(* a Client of its own with api.New(); in mock mode they all work on the   *)
(* one mockShortlists store of the process.                                *)
(***************************************************************************)
InitShort ==
    InitClient({e \in Environments : e.staticToken = "" /\ ~e.credentials}, {"amd64"})

\* shortlistToken: the bearer token of the request, trimmed; a handler
\* answers 401 without a call when it is empty
shortlistToken == {TrimSpace(t) : t \in UserTokens} \ {<<>>}

\* The handlers call the client with a non-empty asset id, and with a
\* positive page and limit (parsePositiveInt)
ShortlistStatuses ==
    /\ DoCheckShortlist(New(env), shortlistToken)
    /\ ret'.arg[1] # <<>>
AddShortlistItem ==
    /\ DoAddToShortlist(New(env), shortlistToken)
    /\ ret'.arg[1] # <<>>
RemoveShortlistItem ==
    /\ DoRemoveFromShortlist(New(env), shortlistToken)
    /\ ret'.arg[1] # <<>>
ShortlistResultsView ==
    /\ DoListShortlisted(New(env), shortlistToken)
    /\ ret'.arg[2] > 0
    /\ ret'.arg[3] > 0

NextShort ==
    \/ ShortlistStatuses
    \/ AddShortlistItem
    \/ RemoveShortlistItem
    \/ ShortlistResultsView
    \/ Respond

SpecShort == InitShort /\ [][NextShort]_vars

(***************************************************************************)
(* Further properties of the read endpoints (SpecRead)                     *)
(***************************************************************************)
\* The properties a call handed to its caller
HandedOut(r) ==
    CASE r.op \in {"SearchProperties", "ListShortlisted"} ->
            {r.result.Items[i] : i \in 1..Len(r.result.Items)}
      [] r.op = "GetProperty" /\ r.err = "" -> {r.result}
      [] OTHER -> {}

\* C14: every Property handed to a caller by SearchProperties, ListShortlisted
\* or GetProperty has a non-empty Title and a non-empty Currency.
PropertiesTitledAndPriced ==
    \A prop \in HandedOut(ret) : prop.Title # <<>> /\ prop.Currency # <<>>

\* What a 200 answer with a decodable body holds, for the three list calls
FromBody(r) ==
    CASE r.op \in {"GetCities", "GetNeighborhoods"} ->
            {r.up.body.items[i] : i \in 1..Len(r.up.body.items)}
      [] r.op = "GetTopNeighborhoods" ->
            {r.up.body[i].Neighborhood : i \in 1..Len(r.up.body)}

\* What the call returned, in the same terms
Returned(r) ==
    CASE r.op \in {"GetCities", "GetNeighborhoods"} ->
            {r.result[i] : i \in 1..Len(r.result)}
      [] r.op = "GetTopNeighborhoods" ->
            {r.result[i].Neighborhood : i \in 1..Len(r.result)}

\* C15: outside mock mode, a 200 answer with a decodable body is what the
\* call returns, also when it holds an empty list: SearchProperties returns
\* the list built from the payload, and GetCities, GetNeighborhoods and
\* GetTopNeighborhoods return no entry that the body does not hold.
RemoteAnswerUsed ==
    (/\ ret.op \in {"SearchProperties", "GetCities", "GetNeighborhoods",
                    "GetTopNeighborhoods"}
     /\ ~ret.before.mockEnabled
     /\ ~UpstreamFailed(ret.up)
     /\ ret.err = "") =>
        IF ret.op = "SearchProperties"
        THEN ret.result = remotePropertyList(buildAssetSearchParams(ret.arg), ret.up.body)
        ELSE \A name \in Returned(ret) :
                 \E held \in FromBody(ret) : TrimSpace(held) = TrimSpace(name)

\* C16: in mock mode SubmitLead returns nil for every lead and sends nothing
\* upstream.
MockLeadAlwaysSucceeds ==
    (ret.op = "SubmitLead" /\ ret.before.mockEnabled) =>
        /\ ret.err = ""
        /\ ret.sent = <<>>
        /\ ret.tokenReqs = 0

(***************************************************************************)
(* Further properties of the token cache (Spec)                            *)
(***************************************************************************)
\* The call could not get a token: nothing to exchange, or the exchange it
\* made failed
TokenCallFailed(r) ==
    \/ ~r.before.hasCredentials
    \/ ~r.before.hasTokenURL
    \/ /\ r.tokenReqs = 1
       /\ r.tok.kind \in {"neterr", "status", "malformed"} \/ r.tok.access_token = ""

\* C17: a getOAuthToken call that fails (network error, status other than
\* 200, malformed body, empty access_token, missing credentials or token
\* URL) returns an error and an empty token, and leaves the cached token and
\* its expiry as they were; a call that returns an error is one of these.
TokenFailureKeepsCache ==
    ret.op = "getOAuthToken" =>
        /\ TokenCallFailed(ret) <=> ret.err # ""
        /\ ret.err # "" => /\ ret.result = ""
                           /\ c = ret.before

\* A refresh failed on the network while an aged token was cached, and the
\* token is still cached
RefreshFailedTokenKept ==
    /\ ret.op = "getOAuthToken"
    /\ ret.before.cachedToken = "tokB"
    /\ now >= ret.before.tokenExpiry
    /\ ret.tok.kind = "neterr"
    /\ ret.tokenReqs = 1
    /\ ret.err # ""
    /\ c.cachedToken = "tokB"

\* Credentials without a token URL: the call failed before any exchange
TokenURLMissing ==
    /\ ret.op = "getOAuthToken"
    /\ ~ret.before.hasTokenURL
    /\ ret.err = "oauth token URL missing"

\* C18: with a static token configured, authorizationHeader returns "Bearer "
\* and that token, sends no token request, does not lock the cache mutex and
\* leaves the cached token and expiry alone; so does every request a call
\* sends.
StaticTokenBypassesCache ==
    (/\ ret.op \in {"authorizationHeader", "SearchProperties", "SearchPage", "SubmitLead"}
     /\ ret.before.Token # "") =>
        /\ ret.tokenReqs = 0
        /\ c = ret.before
        /\ c.cachedToken = "" /\ c.tokenExpiry = 0
        /\ ret.op = "authorizationHeader" =>
               /\ ret.result.header = Bearer(ret.before.Token)
               /\ ret.result.locks = 0
        /\ \A i \in 1..Len(ret.sent) : ret.sent[i].Authorization = Bearer(ret.before.Token)

\* The static token was used although credentials were configured and the
\* token endpoint would have granted a token
StaticTokenUsedDespiteCredentials ==
    /\ ret.op = "authorizationHeader"
    /\ ret.before.Token = "static-jwt"
    /\ ret.before.hasCredentials
    /\ ret.tok.kind = "ok"
    /\ ret.result.header = Bearer("static-jwt")

(***************************************************************************)
(* Properties of the shortlist store (SpecShort)                           *)
(***************************************************************************)
\* What the call r returns in a process that has served no request before
FirstAnswer(r) ==
    CASE r.op = "CheckShortlist" ->
            CheckShortlist(New(env), newMockShortlistStore, r.arg[1], r.arg[2], r.up)
      [] r.op = "AddToShortlist" ->
            AddToShortlist(New(env), newMockShortlistStore, r.arg[1], r.arg[2], r.up)
      [] r.op = "RemoveFromShortlist" ->
            RemoveFromShortlist(New(env), newMockShortlistStore, r.arg[1], r.arg[2], r.up)
      [] r.op = "ListShortlisted" ->
            ListShortlisted(New(env), newMockShortlistStore, r.arg[1], r.arg[2], r.arg[3],
                            r.up[1], r.up[2])

\* C19: apart from the token cache no state is shared across requests: what
\* a shortlist request returns does not depend on the requests the process
\* served before it.
NoStateSharedBesidesToken ==
    ret.op \in {"CheckShortlist", "AddToShortlist", "RemoveFromShortlist",
                "ListShortlisted"} =>
        ret.result = FirstAnswer(ret).result

(***************************************************************************)
(* The parking filter of the mock engine (SpecMock)                        *)
(***************************************************************************)
\* C20: the parking filter matches a mock property with exactly n spaces for
\* n in 0..2 and with at least n spaces for n >= 3; an absent, unparseable
\* or negative value matches every property.
ParkingExactThenOpenEnded ==
    ret.op = "matchesMockFilters" =>
        LET n      == Atoi(TrimSpace(Get(ret.arg, "parking")))
            spaces == getAllMockProperties[ret.prop].Parking
        IN  ret.result =
                IF Get(ret.arg, "parking") = <<>> \/ ~n.ok \/ n.val < 0 THEN TRUE
                ELSE IF n.val <= 2 THEN spaces = n.val
                ELSE spaces >= n.val

\* parking=3 matched a property with five spaces, which parking=2 would not
ParkingThreeMatchedFive ==
    /\ ret.op = "matchesMockFilters"
    /\ Get(ret.arg, "parking") = <<"3">>
    /\ getAllMockProperties[ret.prop].Parking = 5
    /\ ret.result
    /\ ~matchesMockFilters(getAllMockProperties[ret.prop], [k \in {"parking"} |-> <<"2">>])

(***************************************************************************)
(* The price filter of the mock engine (SpecMock)                          *)
(***************************************************************************)
\* What each bound the engine receives means: FALSE for one that imposes no
\* constraint, otherwise the largest whole price not above it and whether
\* it is a whole number itself
PriceBound ==
    [t \in {<<>>, <<"0">>, <<"a", "b", "c">>, <<"-", "5">>} |-> [on |-> FALSE, floor |-> 0, whole |-> TRUE]]
    @@ (<<"5">> :> [on |-> TRUE, floor |-> 5, whole |-> TRUE])
    @@ (<<"2", "0", "0", "0", "0">> :> [on |-> TRUE, floor |-> 20000, whole |-> TRUE])
    @@ (<<"4", "5", "0", "0", "0">> :> [on |-> TRUE, floor |-> 45000, whole |-> TRUE])
    @@ (<<"6", "0", "0", "0", "0">> :> [on |-> TRUE, floor |-> 60000, whole |-> TRUE])
    @@ (<<"2", "0", "0", "0", "0", ".", "5">> :> [on |-> TRUE, floor |-> 20000, whole |-> FALSE])
    @@ (<<"3", "0", "0", "0", "0", "0", "0", "0">> :> [on |-> TRUE, floor |-> 30000000, whole |-> TRUE])

\* a <= price <= b for the bounds of the parameters q
WithinBounds(price, q) ==
    LET a == PriceBound[Get(q, "price_min")]
        b == PriceBound[Get(q, "price_max")]
    IN  /\ a.on => (IF a.whole THEN price >= a.floor ELSE price > a.floor)
        /\ b.on => price <= b.floor

ExpiryIsLifetimeLessBuffer ==
    (/\ ret.op = "getOAuthToken"
     /\ ret.tokenReqs = 1
     /\ ret.err = ""
     /\ ret.tok.expires_in > 0) =>
        /\ c.cachedToken = ret.tok.access_token
        /\ c.tokenExpiry =
               now + 10 * ret.tok.expires_in
                   - (IF ret.tok.expires_in >= 1200 THEN 1200 ELSE ret.tok.expires_in)

\* A 28-minute grant was stored with an expiry 26 minutes ahead, and a
\* 67-second grant before it with an expiry 60.3 seconds ahead
StoredTwoMinutesEarly ==
    /\ ret.op = "getOAuthToken"
    /\ ret.tokenReqs = 1
    /\ ret.tok = TokenGrant("tokB", 1680)
    /\ c.cachedToken = "tokB"
    /\ c.tokenExpiry = now + 26 * Minute
    /\ ret.held.expires_in = 67
    /\ ret.before.tokenExpiry = ret.held.at + 603

PagesAreCeiling ==
    (ret.op = "getMockSearchResults" /\ Atoi(Get(ret.arg, "limit")).val >= 1) =>
        LET limit == Atoi(Get(ret.arg, "limit")).val
            total == Cardinality({i \in 1..Len(getAllMockProperties) :
                                     matchesMockFilters(getAllMockProperties[i], ret.arg)})
        IN  /\ ret.result.Total = total
            /\ total = 0 => ret.result.Pages = 1
            /\ total > 0 => /\ ret.result.Pages * limit >= total
                            /\ (ret.result.Pages - 1) * limit < total

\* All 23 mock properties at 5 a page: 5 pages, the last one short
TwentyThreeInFivePages ==
    /\ ret.op = "getMockSearchResults"
    /\ Get(ret.arg, "limit") = <<"5">>
    /\ ret.result.Total = 23
    /\ ret.result.Pages = 5

\* A search that matches nothing reports one page
NoMatchOnePage ==
    /\ ret.op = "getMockSearchResults"
    /\ ret.result.Total = 0
    /\ ret.result.Pages = 1
    /\ ret.result.Items = <<>>

(***************************************************************************)
(* Requests with both names of an alias pair (SpecNorm)                    *)
(***************************************************************************)
\* C28: when a request carries both names of an alias pair, the preferred
\* name decides (types over type, neighborhood over area, price_min over
\* minPrice, price_max over maxPrice) and the value under the other name has
\* no influence: the normalized parameters are those of the request without
\* the other name.
PreferredNameWins ==
    ret.op = "buildAssetSearchParams" =>
        \A p \in AliasPairs :
            (/\ {p[1], p[2]} \subseteq DOMAIN ret.arg
             /\ cleanAnyValue(ret.arg[p[1]]) # <<>>
             /\ cleanAnyValue(ret.arg[p[2]]) # <<>>) =>
                ret.result = buildAssetSearchParams(Without(ret.arg, p[2]))

(***************************************************************************)
(* SpecStore: the methods of the mock shortlist store called one after     *)
(* another with any token, blank ones included, on the one store of the    *)
(* process.                                                                *)
(***************************************************************************)
StoreTokens == UserTokens \cup {<<" ", " ">>, <<"u", "-", "1">>}
StoreAssets == {<<"m", "o", "c", "k", "-", "r", "e", "s", "-", "u", "t", "t", "a", "r", "a", "-", "0", "3">>, <<"l", "i", "v", "e", "-", "7">>}

InitStore == InitClient({e \in Environments : e.mock}, {"amd64"})

\* A method of the store returns o
StoreReturns(op, arg, o) ==
    /\ ret = NoCall
    /\ mockShortlists' = o.store
    /\ ret' = [op |-> op, arg |-> arg, store |-> mockShortlists, result |-> o.result]
    /\ UNCHANGED <<arch, env, c, now, ticks, issued, crawl, mu, gor, exchanges>>

StoreStatus ==
    \E id \in StoreAssets, token \in StoreTokens :
        StoreReturns("status", <<id, token>>, mockCheckShortlist(mockShortlists, id, token))

StoreAdd ==
    \E id \in StoreAssets, token \in StoreTokens :
        StoreReturns("add", <<id, token>>, mockAddToShortlist(mockShortlists, id, token))

StoreRemove ==
    \E id \in StoreAssets, token \in StoreTokens :
        StoreReturns("remove", <<id, token>>,
                     mockRemoveFromShortlist(mockShortlists, id, token))

StorePages == {0, 1, 3}
StoreLimits == {0, 1, 3}

StoreList ==
    \E token \in StoreTokens, page \in StorePages, limit \in StoreLimits :
        StoreReturns("list", <<token, page, limit>>,
                     mockListShortlisted(mockShortlists, token, page, limit))

NextStore ==
    \/ StoreStatus
    \/ StoreAdd
    \/ StoreRemove
    \/ StoreList
    \/ Respond

SpecStore == InitStore /\ [][NextStore]_vars

\* The user a token stands for
UserOf ==
    (<<>> :> <<"d", "e", "m", "o">>) @@ (<<" ", " ">> :> <<"d", "e", "m", "o">>) @@ (<<"d", "e", "m", "o">> :> <<"d", "e", "m", "o">>)
    @@ (<<" ", "u", "-", "1", " ">> :> <<"u", "-", "1">>) @@ (<<"u", "-", "1">> :> <<"u", "-", "1">>)

\* The store s reports the id as shortlisted for the user
Listed(s, user, id) ==
    user \in DOMAIN s.items /\ \E i \in 1..Len(s.items[user]) : s.items[user][i] = id

\* The ids the store is seeded with, all for the user demo
SeedIDs ==
    {<<"m", "o", "c", "k", "-", "r", "e", "s", "-", "u", "t", "t", "a", "r", "a", "-", "0", "1">>, <<"m", "o", "c", "k", "-", "r", "e", "s", "-", "u", "t", "t", "a", "r", "a", "-", "0", "3">>, <<"m", "o", "c", "k", "-", "c", "o", "m", "-", "b", "a", "d", "d", "a", "-", "0", "1">>,
     <<"m", "o", "c", "k", "-", "c", "o", "m", "-", "m", "o", "h", "a", "k", "h", "a", "l", "i", "-", "0", "1">>}

\* What the store reports for user and id once the call r has returned, given
\* what it reported before
ListedAfter(r, before, user, id) ==
    IF r.op \in {"add", "remove"} /\ UserOf[r.arg[2]] = user /\ r.arg[1] = id
    THEN r.op = "add"
    ELSE before

\* C29: the store reports an id as shortlisted for a user iff the last add or
\* remove for that user and id was an add, or, without such a call, iff the
\* id is in the seed of demo; a call for one user changes nothing for another
\* user, and a blank token is the user demo.
StatusFollowsLastCall ==
    /\ \A user \in {<<"d", "e", "m", "o">>, <<"u", "-", "1">>}, id \in SeedIDs \cup StoreAssets :
           Listed(newMockShortlistStore, user, id) <=> (user = <<"d", "e", "m", "o">> /\ id \in SeedIDs)
    /\ [][/\ \A user \in {<<"d", "e", "m", "o">>, <<"u", "-", "1">>}, id \in SeedIDs \cup StoreAssets :
                 Listed(mockShortlists', user, id)
                     <=> ListedAfter(ret', Listed(mockShortlists, user, id), user, id)
          /\ ret'.op \in {"status", "add", "remove"} =>
                 ret'.result.IsShortlisted
                     = ListedAfter(ret', Listed(mockShortlists, UserOf[ret'.arg[2]],
                                                ret'.arg[1]),
                                   UserOf[ret'.arg[2]], ret'.arg[1])]_vars

\* A blank token was told that live-7 is shortlisted and the seeded
\* mock-res-uttara-03 no longer is, while u-1 has shortlisted neither
BlankTokenSeesDemo ==
    /\ ret.op = "status"
    /\ ret.arg = <<<<"l", "i", "v", "e", "-", "7">>, <<" ", " ">>>>
    /\ ret.result.IsShortlisted
    /\ ~Listed(mockShortlists, <<"d", "e", "m", "o">>, <<"m", "o", "c", "k", "-", "r", "e", "s", "-", "u", "t", "t", "a", "r", "a", "-", "0", "3">>)
    /\ Listed(mockShortlists, <<"u", "-", "1">>, <<"m", "o", "c", "k", "-", "r", "e", "s", "-", "u", "t", "t", "a", "r", "a", "-", "0", "3">>)
    /\ ~Listed(mockShortlists, <<"u", "-", "1">>, <<"l", "i", "v", "e", "-", "7">>)

\* The number of Items on the pages 1..p of the listing of the store s
RECURSIVE ItemsUpToPage(_, _, _, _)
ItemsUpToPage(s, token, limit, p) ==
    IF p = 0
    THEN 0
    ELSE Len(mockListShortlisted(s, token, p, limit).result.Items)
         + ItemsUpToPage(s, token, limit, p - 1)

\* C30: the Items of the pages 1..Pages of a listing add up to its Total.
ItemsAddUpToTotal ==
    ret.op = "list" =>
        ItemsUpToPage(mockShortlists, ret.arg[1], ret.arg[3], ret.result.Pages)
            = ret.result.Total

(***************************************************************************)
(* SpecConc: goroutines calling getOAuthToken on one Client at the same    *)
(* time.  Each goroutine calls once; the clock advances while calls are    *)
(* under way.                                                              *)
(***************************************************************************)
ConcResponses ==
    {TokenFailure("neterr"), TokenGrant("", 900), TokenGrant("tokA", 66),
     TokenGrant("tokB", 900)}
Pending == [kind |-> "pending"]

\* The Timeout of the Client's http.Client
HCTimeout == Seconds(10)

InitConc ==
    InitClient({e \in Environments : ~e.mock /\ e.staticToken = ""}
                   \cup BlankURLEnvironments, {"amd64"})

\* A mutex that lets everyone in
muFreeAlways(holder) == TRUE

\* Line 1016: c.mu.Lock() goes on once nobody holds c.mu
muFree(holder) == holder = 0

\* An unlock that is skipped when the call fails
unlockUnlessError(holder, err) == IF err = "" THEN 0 ELSE holder

\* Line 1017: the deferred c.mu.Unlock(), run on every return past it
deferredUnlock(holder, err) == 0

\* The goroutine g has returned token and err
GoReturned(g, token, err) ==
    [gor EXCEPT ![g] = [pc |-> "done", token |-> token, err |-> err]]

\* Lines 1008-1014: the checks before the mutex is touched
Enter(g) ==
    LET e == getOAuthToken(c, now, TokenFailure("neterr"))
    IN  /\ gor[g].pc = "idle"
        /\ gor' = IF e.err \in EarlyTokenErrors
                  THEN GoReturned(g, "", e.err)
                  ELSE [gor EXCEPT ![g].pc = "lock"]
        /\ UNCHANGED <<arch, env, c, now, ticks, issued, ret, crawl, mockShortlists, mu,
                       exchanges>>

\* Line 1016
Lock(g) ==
    /\ gor[g].pc = "lock"
    /\ muFree(mu)
    /\ mu' = g
    /\ gor' = [gor EXCEPT ![g].pc = "check"]
    /\ UNCHANGED <<arch, env, c, now, ticks, issued, ret, crawl, mockShortlists, exchanges>>

\* Lines 1019-1045: the cached token is returned, or the request is sent
CheckCache(g) ==
    /\ gor[g].pc = "check"
    /\ IF tokenCached(c, now)
       THEN /\ gor' = GoReturned(g, c.cachedToken, "")
            /\ mu' = deferredUnlock(mu, "")
            /\ UNCHANGED exchanges
       ELSE /\ gor' = [gor EXCEPT ![g].pc = "request"]
            /\ exchanges' = Append(exchanges, [by |-> g, resp |-> Pending])
            /\ UNCHANGED mu
    /\ UNCHANGED <<arch, env, c, now, ticks, issued, ret, crawl, mockShortlists>>

\* Lines 1047-1090: the token endpoint answers, or the request fails
Answer(g) ==
    \E resp \in ConcResponses, i \in 1..Len(exchanges) :
        LET r == requestToken(c, now, resp)
        IN  /\ gor[g].pc = "request"
            /\ exchanges[i] = [by |-> g, resp |-> Pending]
            /\ exchanges' = [exchanges EXCEPT ![i].resp = resp]
            /\ c' = r.c
            /\ issued' = issuedAfter(c, r.c, resp)
            /\ gor' = GoReturned(g, r.token, r.err)
            /\ mu' = deferredUnlock(mu, r.err)
            /\ UNCHANGED <<arch, env, now, ticks, ret, crawl, mockShortlists>>

\* Time passes while a call is under way, as much as a request may take
Wait ==
    /\ \E g \in Goroutines : gor[g].pc \in {"lock", "check", "request"}
    /\ ticks < MaxTicks
    /\ now' = now + HCTimeout
    /\ ticks' = ticks + 1
    /\ UNCHANGED <<arch, env, c, issued, ret, crawl, mockShortlists, mu, gor, exchanges>>

NextConc ==
    \/ \E g \in Goroutines : Enter(g)
    \/ \E g \in Goroutines : Lock(g)
    \/ \E g \in Goroutines : CheckCache(g)
    \/ \E g \in Goroutines : Answer(g)
    \/ Wait

SpecConc == InitConc /\ [][NextConc]_vars

\* C22: at most one request to the token endpoint is under way at any
\* moment, and a goroutine that is reading or writing the token cache holds
\* the mutex.
OneExchangeInFlight ==
    /\ Cardinality({i \in 1..Len(exchanges) : exchanges[i].resp = Pending}) <= 1
    /\ \A g \in Goroutines : gor[g].pc \in {"check", "request"} => mu = g

\* A goroutine waits for the mutex while another has a request under way
WaitingBehindExchange ==
    \E g, h \in Goroutines :
        /\ gor[g].pc = "request"
        /\ gor[h].pc = "lock"
        /\ mu = g
        /\ now > 0

\* C23: once the first request to the token endpoint was answered with a
\* token that lives 15 minutes or longer, no second request is made and
\* every goroutine that has returned has returned that token.
OneExchangeServesAll ==
    (/\ Len(exchanges) >= 1
     /\ exchanges[1].resp.kind = "ok"
     /\ exchanges[1].resp.access_token # ""
     /\ exchanges[1].resp.expires_in >= 900)
    => /\ Len(exchanges) = 1
       /\ \A g \in Goroutines :
              gor[g].pc = "done" =>
                  gor[g].token = exchanges[1].resp.access_token /\ gor[g].err = ""

\* All goroutines have returned tokB after a single request that took time
AllServedByOneExchange ==
    /\ \A g \in Goroutines : gor[g] = [pc |-> "done", token |-> "tokB", err |-> ""]
    /\ Len(exchanges) = 1
    /\ exchanges[1].resp = TokenGrant("tokB", 900)
    /\ now > 0

(***************************************************************************)
(* SpecConcFair: SpecConc where a goroutine that can take a step takes it  *)
(* in the end: the runtime schedules every runnable goroutine, a goroutine *)
(* waiting for an unlocked mutex gets it, and every request to the token   *)
(* endpoint completes (the http.Client has a Timeout).                     *)
(***************************************************************************)
SpecConcFair ==
    /\ SpecConc
    /\ \A g \in Goroutines :
           WF_vars(Lock(g)) /\ WF_vars(CheckCache(g)) /\ WF_vars(Answer(g))

\* C26: the mutex is held only by a goroutine that is between Lock and its
\* return, and every goroutine that has come to c.mu.Lock() returns in the
\* end.
EveryCallReturns ==
    /\ [](\A g \in Goroutines : mu = g => gor[g].pc \in {"check", "request"})
    /\ \A g \in Goroutines : (gor[g].pc = "lock") ~> (gor[g].pc = "done")

\* One goroutine's request failed, and the two that waited behind it have
\* returned as well, the mutex being free again
ReturnedAfterFailure ==
    /\ \A g \in Goroutines : gor[g].pc = "done"
    /\ \E g \in Goroutines : gor[g].err = "network error"
    /\ \E g \in Goroutines : gor[g].err = "oauth token: empty access_token"
    /\ \E g \in Goroutines : gor[g].token = "tokA"
    /\ mu = 0

====
